---- MODULE Spec2Model ----
(***************************************************************************)
(* TinyWatcher: the alert dispatcher (src/src/alerts/mod.rs).              *)
(*                                                                         *)
(* AlertManager holds a registry  name -> handler  and a shared cooldown   *)
(* map  rule name -> Instant  behind a tokio Mutex.  Several tasks (the    *)
(* stdout and stderr readers of a container, file tails, streams, health   *)
(* checks) call send_alert / send_alert_multi on the same manager.         *)
(*                                                                         *)
(* Time is a discrete monotonic clock counted in ticks; one second is      *)
(* TicksPerSec ticks, so that sub-second spacing of matches is expressible *)
(* while cooldowns stay whole seconds (cooldown_secs: u64).                *)
(***************************************************************************)
EXTENDS Integers, Sequences, FiniteSets, TLC

\* ------------------------------------------------------------------ bounds

\* Last tick of the clock.
MaxTime == 3

\* Number of send_alert / send_alert_multi calls made in one behaviour.
MaxDispatches == 3

\* ------------------------------------------------------------ inputs, values

\* Clock resolution: Instant is finer than the whole seconds of cooldown_secs.
TicksPerSec == 2

\* The tasks that share the manager (the two reader tasks of one container).
Tasks == {"stdout_task", "stderr_task"}

\* Names under which handlers may be registered, and the handler objects.
AlertNames == {"a1", "a2"}
HandlerIds == {"h1", "h2"}

\* Rule names used as cooldown keys.
RuleNames == {"r1", "r2"}

\* cooldown_secs arguments.
Cooldowns == {0, 1}

\* alert_names arguments of send_alert_multi: two targets in both orders, and
\* three targets with a repetition (so that the middle one can be missing).
TargetLists == { <<"a1", "a2">>, <<"a2", "a1">>, <<"a1", "a2", "a1">> }

\* The alert_names of the calls made by concurrent tasks, where the gate and
\* not the fan-out is in question.
GateTargetLists == { <<"a1", "a2">> }

NoHandler == "none"
NoInstant == -1
NoTask == "nobody"
NoRule == "-"

VARIABLES
    handlers,    \* AlertManager.handlers: name -> handler id, or NoHandler
    cooldowns,   \* AlertManager.cooldowns: rule name -> Instant, or NoInstant
    lockHolder,  \* owner of the cooldowns Mutex, or NoTask
    now,         \* the monotonic clock (Instant::now()), in ticks
    pc,          \* where each task stands in its call
    call,        \* arguments and locals of each task's call in progress
    crossed,     \* history: per rule, when a dispatch for it last passed the gate
    started,     \* history: number of dispatches started so far
    lastRegistered  \* history: per name, the handler of the last register call

\* The log monitors (src/src/log_monitor.rs, src/src/stream_monitor.rs).
VARIABLES
    config,      \* Config.rules: the rules the monitors were built from
    proc,        \* the process_line call of the line read last
    unconsumed,  \* history: per rule, instants of its matches since it last fired
    watcher,     \* watch_file / watch_container: position, retry_delay, history
    child,       \* the child process (tail -F, docker logs -f) of this attempt
    orphans,     \* children of earlier attempts that are still alive
    pipe,        \* per pipe of the child, the lines written and not yet read
    reader,      \* per pipe, where its reading loop stands
    arrived,     \* history: number of lines the child of this attempt has written
    completed    \* history: arrival numbers of the lines whose processing ended

\* The other services: stream sources, health checks, resource sampling, and
\* the loading of the configuration at startup.
VARIABLES
    stream,      \* watch_stream of one stream source: its config and position
    health,      \* run_health_check of one check: its config, locals and history
    resource,    \* ResourceMonitor::start: its config, sample and position
    startup,     \* handle_watch: the configuration loaded and how far it got
    parsed,      \* Threshold::parse: the input string and the result
    peer,        \* run_health_check of a second check, spawned beside the first
    request,     \* AlertHandler::send of one HTTP handler: the answer and the result
    supervisor   \* handle_watch after the spawns: the root tasks and the wait

dispatcherVars ==
    <<handlers, cooldowns, lockHolder, now, pc, call, crossed, started, lastRegistered>>
pipelineVars == <<config, proc, unconsumed>>
watcherVars == <<watcher, child, orphans, pipe, reader, arrived, completed>>
adjunctVars == <<peer, request, supervisor>>
serviceVars == <<stream, health, resource, startup, parsed, peer, request, supervisor>>

vars == <<handlers, cooldowns, lockHolder, now, pc, call, crossed, started,
          lastRegistered,
          config, proc, unconsumed,
          watcher, child, orphans, pipe, reader, arrived, completed,
          stream, health, resource, startup, parsed,
          peer, request, supervisor>>

\* ------------------------------------------------------------------ helpers

\* Duration::from_secs(cooldown_secs), in ticks.
from_secs(cooldown_secs) == cooldown_secs * TicksPerSec

\* last_alert.elapsed(), read at clock value t.
elapsed(last_alert, t) == t - last_alert

\* The key under which check_cooldown reads and writes the map.
\* Variant: one key for every rule.
CooldownKey_Shared(rule_name) == "r1"
CooldownKey(rule_name) == rule_name

\* The test of check_cooldown: an entry exists and is younger than the cooldown.
\* Variant: the cooldown taken in clock ticks, not seconds.
InCooldown_Ticks(last_alert, t, cooldown_secs) ==
    /\ last_alert # NoInstant
    /\ elapsed(last_alert, t) < cooldown_secs
\* Variant: <= in place of <.
InCooldown_Inclusive(last_alert, t, cooldown_secs) ==
    /\ last_alert # NoInstant
    /\ elapsed(last_alert, t) <= from_secs(cooldown_secs)
InCooldown(last_alert, t, cooldown_secs) ==
    /\ last_alert # NoInstant
    /\ elapsed(last_alert, t) < from_secs(cooldown_secs)

\* self.handlers.get(alert_name)
Registered(alert_name) == handlers[alert_name] # NoHandler

IdleCall ==
    [ kind |-> "none", alert_names |-> <<>>, rule_name |-> NoRule,
      cooldown_secs |-> 0, idx |-> 0, stamp |-> NoInstant, passed |-> FALSE,
      sends |-> <<>>, send_errs |-> 0, result |-> "pending" ]

NewCall(kind, alert_names, rule_name, cooldown_secs) ==
    [ IdleCall EXCEPT !.kind = kind, !.alert_names = alert_names,
                      !.rule_name = rule_name, !.cooldown_secs = cooldown_secs ]

TypeOK ==
    /\ handlers \in [AlertNames -> HandlerIds \cup {NoHandler}]
    /\ cooldowns \in [RuleNames -> (0..MaxTime) \cup {NoInstant}]
    /\ lockHolder \in Tasks \cup {NoTask}
    /\ now \in 0..MaxTime
    /\ pc \in [Tasks -> {"idle", "lock", "check", "insert", "fanout", "sending"}]
    /\ started \in 0..MaxDispatches
    /\ crossed \in [RuleNames -> (0..MaxTime) \cup {NoInstant}]

\* ------------------------------------------- log monitors: values, helpers

\* Lines longer than this are skipped by the file and container readers.
MAX_LINE_LENGTH == 10000

\* Retry delays of watch_file and watch_container, in seconds.
INITIAL_RETRY_DELAY == 1
MAX_RETRY_DELAY == 60

\* Option: None, Some(x), and the value of a Some.
None == <<>>
Some(x) == <<x>>
unwrap(option) == option[1]

\* Names of files, containers and streams; the same string may name a file, a
\* container and a stream.
SourceNames == {"x", "y"}

\* SourceType::File(path), ::Container(name), ::Stream(name).
SourceTypes == [kind : {"File", "Container", "Stream"}, name : SourceNames]

\* RuleSources: the three lists of a rule's sources filter.
FileLists == { <<>>, <<"x">>, <<"y", "x">> }
ContainerLists == { <<>>, <<"x">> }
StreamLists == { <<>>, <<"y">> }
RuleSourcesValues ==
    [files : FileLists, containers : ContainerLists, streams : StreamLists]

\* A line is its content followed by pad filler bytes that occur in no rule;
\* the paddings put lengths just below, at and above MAX_LINE_LENGTH.
LineContents == { <<"E", "r">>, <<"r", "E">>, <<"e", "r">>, <<"o", "k">> }
Paddings == {0, MAX_LINE_LENGTH - 2, MAX_LINE_LENGTH - 1}
Lines == [content : LineContents, pad : Paddings]

\* line.len(), in bytes.
len(line) == Len(line.content) + line.pad

\* str::contains: case-sensitive substring containment.
contains(line, text) ==
    \E i \in 1..(Len(line.content) - Len(text) + 1) :
        SubSeq(line.content, i, i + Len(text) - 1) = text

\* Regex::is_match for the patterns  lit, ^lit, lit$, ^lit$ : a search anywhere
\* in the line, anchored only where the pattern says so.
is_match(regex, line) ==
    \E i \in 1..(Len(line.content) - Len(regex.literal) + 1) :
        /\ SubSeq(line.content, i, i + Len(regex.literal) - 1) = regex.literal
        /\ regex.anchor_start => i = 1
        /\ regex.anchor_end =>
              /\ line.pad = 0
              /\ i + Len(regex.literal) - 1 = Len(line.content)

\* The text / pattern pairs of the first rule: one of the two is set.
Matchers ==
    { [text |-> Some(<<"E">>), pattern |-> None],
      [text |-> None,
       pattern |-> Some([anchor_start |-> TRUE, literal |-> <<"E">>,
                         anchor_end |-> FALSE])],
      [text |-> None,
       pattern |-> Some([anchor_start |-> FALSE, literal |-> <<"r">>,
                         anchor_end |-> TRUE])] }

\* Threshold { count, window }: "2 in 1s", or none.
Thresholds == { None, Some([count |-> 2, window |-> 1]) }

\* Config.rules: two rules; the first varies in matcher, sources filter and
\* threshold, the second is a text rule with or without a sources filter.
Rule1Values ==
    { [name |-> "r1", text |-> m.text, pattern |-> m.pattern,
       alert |-> <<"a1", "a2">>, cooldown |-> 1, sources |-> src, threshold |-> th] :
         m \in Matchers, th \in Thresholds,
         src \in {None} \cup {Some(rs) : rs \in RuleSourcesValues} }

Rule2Values ==
    { [name |-> "r2", text |-> Some(<<"r">>), pattern |-> None,
       alert |-> <<"a2">>, cooldown |-> 0, sources |-> src, threshold |-> None] :
         src \in { None, Some([files |-> <<"x">>, containers |-> <<>>,
                                streams |-> <<"y">>]) } }

Configs == { <<r1, r2>> : r1 \in Rule1Values, r2 \in Rule2Values }

\* Rule::match_type.
match_type(rule) ==
    IF rule.text # None
    THEN [kind |-> "Text", text |-> unwrap(rule.text)]
    ELSE [kind |-> "Regex", regex |-> unwrap(rule.pattern)]

\* LogMonitor::new: the compiled rules (name, matcher, alert_names, cooldown,
\* sources); a rule's threshold is not carried over.
LogMonitor_rules ==
    [ i \in 1..Len(config) |->
        [name |-> config[i].name, matcher |-> match_type(config[i]),
         alert_names |-> config[i].alert, cooldown |-> config[i].cooldown,
         sources |-> config[i].sources] ]

\* StreamMonitor::new: the regex is compiled from rule.pattern, whatever the
\* rule's text.
StreamMonitor_rules ==
    [ i \in 1..Len(config) |->
        [name |-> config[i].name, regex |-> config[i].pattern,
         alert_names |-> config[i].alert, cooldown |-> config[i].cooldown,
         sources |-> config[i].sources] ]

\* Iterator::any(|f| f == x) over a list.
any(list, x) == \E i \in 1..Len(list) : list[i] = x

\* Rule::applies_to_source (config.rs).
Rule_applies_to_source(rule, source) ==
    IF rule.sources = None THEN TRUE
    ELSE LET sources == unwrap(rule.sources) IN
         CASE source.kind = "File" ->
                IF Len(sources.files) = 0 THEN FALSE
                ELSE any(sources.files, source.name)
           [] source.kind = "Container" ->
                IF Len(sources.containers) = 0 THEN FALSE
                ELSE any(sources.containers, source.name)
           [] source.kind = "Stream" ->
                IF Len(sources.streams) = 0 THEN FALSE
                ELSE any(sources.streams, source.name)

\* Variant: an empty list for the source's kind admits every source of it.
LogMonitor_rule_applies_to_source_EmptyAdmits(rule, source) ==
    IF rule.sources = None THEN TRUE
    ELSE LET sources == unwrap(rule.sources) IN
         CASE source.kind = "File" ->
                IF Len(sources.files) = 0 THEN TRUE
                ELSE any(sources.files, source.name)
           [] source.kind = "Container" ->
                IF Len(sources.containers) = 0 THEN TRUE
                ELSE any(sources.containers, source.name)
           [] source.kind = "Stream" ->
                IF Len(sources.streams) = 0 THEN TRUE
                ELSE any(sources.streams, source.name)

\* LogMonitor::rule_applies_to_source, on a compiled rule.
LogMonitor_rule_applies_to_source(rule, source) ==
    IF rule.sources = None THEN TRUE
    ELSE LET sources == unwrap(rule.sources) IN
         CASE source.kind = "File" ->
                IF Len(sources.files) = 0 THEN FALSE
                ELSE any(sources.files, source.name)
           [] source.kind = "Container" ->
                IF Len(sources.containers) = 0 THEN FALSE
                ELSE any(sources.containers, source.name)
           [] source.kind = "Stream" ->
                IF Len(sources.streams) = 0 THEN FALSE
                ELSE any(sources.streams, source.name)

\* StreamMonitor::rule_applies_to_source, on a compiled rule.
StreamMonitor_rule_applies_to_source(rule, source) ==
    IF rule.sources = None THEN TRUE
    ELSE LET sources == unwrap(rule.sources) IN
         CASE source.kind = "File" ->
                IF Len(sources.files) = 0 THEN FALSE
                ELSE any(sources.files, source.name)
           [] source.kind = "Container" ->
                IF Len(sources.containers) = 0 THEN FALSE
                ELSE any(sources.containers, source.name)
           [] source.kind = "Stream" ->
                IF Len(sources.streams) = 0 THEN FALSE
                ELSE any(sources.streams, source.name)

\* No line has been read yet.
NoProc ==
    [ status |-> "idle", monitor |-> "none", line |-> <<>>, source |-> <<>>,
      idx |-> 0, tried |-> {}, dispatched |-> <<>>, dropped |-> FALSE ]

\* process_line(line, source) is entered: the loop stands at the first rule.
EnterProcessLine(monitor, line, source) ==
    [ NoProc EXCEPT !.status = IF Len(config) = 0 THEN "idle" ELSE "eval",
                    !.monitor = monitor, !.line = line, !.source = source,
                    !.idx = 1 ]

\* The reader skipped the line (continue) without calling process_line.
Skipped(line, source) ==
    [ NoProc EXCEPT !.monitor = "log", !.line = line, !.source = source,
                    !.dropped = TRUE ]

\* The for loop moves to the next rule, or process_line returns.
NextRule(p) ==
    [ p EXCEPT !.idx = p.idx + 1,
               !.status = IF p.idx + 1 > Len(config) THEN "idle" ELSE "eval" ]

\* The child-process watchers: bounds of one behaviour.

\* Number of watch_file_once / watch_container_once calls (enough for the
\* delay to saturate: 1, 2, 4, 8, 16, 32, 60, 60).
MaxAttempts == 8

\* Number of lines one child writes.
MaxLines == 2

WatcherKinds == {"file", "container"}

\* watch_file(path) / watch_container(name) is entered: retry_delay is
\* INITIAL_RETRY_DELAY, no attempt made yet.
StartWatcher(kind) ==
    [ kind |-> kind, pc |-> "loop", retry_delay |-> INITIAL_RETRY_DELAY,
      result |-> "none", attempts |-> 0,
      attached |-> FALSE,   \* history: this attempt spawned its child and read from it
      fails |-> 0,          \* history: failed attempts since the start or the last Ok
      slept |-> 0 ]         \* history: the duration of the sleep entered last

\* No watcher task was spawned.
NoWatcher == [ StartWatcher("none") EXCEPT !.pc = "off" ]

\* A reading loop: where it stands and the line it is processing.
ReaderOff == [pc |-> "off", cur |-> 0]

\* Duration::min.
min(a, b) == IF a < b THEN a ELSE b

\* -------------------------------------------------------------------- Init

\* AlertManager::new(): empty registry, empty cooldown map, no call running.
ManagerNew ==
    /\ handlers = [n \in AlertNames |-> NoHandler]
    /\ cooldowns = [r \in RuleNames |-> NoInstant]
    /\ lockHolder = NoTask
    /\ now = 0
    /\ pc = [t \in Tasks |-> "idle"]
    /\ call = [t \in Tasks |-> IdleCall]
    /\ crossed = [r \in RuleNames |-> NoInstant]
    /\ started = 0
    /\ lastRegistered = [n \in AlertNames |-> NoHandler]

\* No rules configured, no line read.
PipelineOff ==
    /\ config = <<>>
    /\ proc = NoProc
    /\ unconsumed = [r \in RuleNames |-> <<>>]

\* No file or container input configured.
WatcherOff ==
    /\ watcher = NoWatcher
    /\ child = "none"
    /\ orphans = 0
    /\ pipe = [t \in Tasks |-> <<>>]
    /\ reader = [t \in Tasks |-> ReaderOff]
    /\ arrived = 0
    /\ completed = {}

\* No stream source configured.
StreamOff == stream = <<>>

\* No health check configured.
HealthOff == health = <<>>

\* No resource thresholds configured.
ResourceOff == resource = <<>>

\* The configuration is loaded and the monitors run.
StartupOff == startup = <<>>

\* No threshold string being parsed.
ParsedOff == parsed = <<>>

\* No second health check, no handler send on its own, no supervisor.
AdjunctOff == peer = <<>> /\ request = <<>> /\ supervisor = <<>>

ServicesOff ==
    StreamOff /\ HealthOff /\ ResourceOff /\ StartupOff /\ ParsedOff /\ AdjunctOff

\* The dispatcher on its own.
Init == ManagerNew /\ PipelineOff /\ WatcherOff /\ ServicesOff

\* ----------------------------------------------------------------- actions

\* The clock advances (at any moment, also while a task holds the lock or
\* waits for a handler).
Tick ==
    /\ now < MaxTime
    /\ now' = now + 1
    /\ UNCHANGED <<handlers, lastRegistered, cooldowns, lockHolder, pc, call, crossed, started>>
    /\ UNCHANGED <<pipelineVars, watcherVars, serviceVars>>

\* register, had the registry kept the first handler of a name.
Register_KeepFirst(name, handler) ==
    /\ \A t \in Tasks : pc[t] = "idle"
    /\ started = 0
    /\ handlers' = IF handlers[name] = NoHandler
                   THEN [handlers EXCEPT ![name] = handler]
                   ELSE handlers
    /\ lastRegistered' = [lastRegistered EXCEPT ![name] = handler]
    /\ UNCHANGED <<cooldowns, lockHolder, now, pc, call, crossed, started>>
    /\ UNCHANGED <<pipelineVars, watcherVars, serviceVars>>

\* register(&mut self, name, handler): exclusive access, before the manager is
\* shared with the tasks (main.rs registers, then wraps the manager in an Arc).
Register(name, handler) ==
    /\ \A t \in Tasks : pc[t] = "idle"
    /\ started = 0
    /\ handlers' = [handlers EXCEPT ![name] = handler]
    /\ lastRegistered' = [lastRegistered EXCEPT ![name] = handler]
    /\ UNCHANGED <<cooldowns, lockHolder, now, pc, call, crossed, started>>
    /\ UNCHANGED <<pipelineVars, watcherVars, serviceVars>>

\* A task calls send_alert(alert_name, rule_name, _, cooldown_secs).
CallSendAlert(t, alert_name, rule_name, cooldown_secs) ==
    /\ pc[t] = "idle"
    /\ started < MaxDispatches
    /\ started' = started + 1
    /\ call' = [call EXCEPT ![t] = NewCall("single", <<alert_name>>, rule_name, cooldown_secs)]
    /\ pc' = [pc EXCEPT ![t] = "lock"]
    /\ UNCHANGED <<handlers, lastRegistered, cooldowns, lockHolder, now, crossed>>
    /\ UNCHANGED <<pipelineVars, watcherVars, serviceVars>>

\* A task calls send_alert_multi(alert_names, rule_name, _, cooldown_secs).
CallSendAlertMulti(t, alert_names, rule_name, cooldown_secs) ==
    /\ pc[t] = "idle"
    /\ started < MaxDispatches
    /\ started' = started + 1
    /\ call' = [call EXCEPT ![t] = NewCall("multi", alert_names, rule_name, cooldown_secs)]
    /\ pc' = [pc EXCEPT ![t] = "lock"]
    /\ UNCHANGED <<handlers, lastRegistered, cooldowns, lockHolder, now, crossed>>
    /\ UNCHANGED <<pipelineVars, watcherVars, serviceVars>>

\* check_cooldown: self.cooldowns.lock().await
\* Variant: a lock that excludes nobody.
AcquireLock_NoExclusion(t) ==
    /\ pc[t] = "lock"
    /\ lockHolder' = t
    /\ pc' = [pc EXCEPT ![t] = "check"]
    /\ UNCHANGED <<handlers, lastRegistered, cooldowns, now, call, crossed, started>>
    /\ UNCHANGED <<pipelineVars, watcherVars, serviceVars>>
AcquireLock(t) ==
    /\ pc[t] = "lock"
    /\ lockHolder = NoTask
    /\ lockHolder' = t
    /\ pc' = [pc EXCEPT ![t] = "check"]
    /\ UNCHANGED <<handlers, lastRegistered, cooldowns, now, call, crossed, started>>
    /\ UNCHANGED <<pipelineVars, watcherVars, serviceVars>>

\* check_cooldown, the entry is younger than the cooldown: return false, and
\* the caller returns Ok(()) at once.  The guard drops, the map is untouched.
\* Variant: the suppressed call rewrites the timestamp.
GateReject_Extends(t) ==
    /\ pc[t] = "check"
    /\ InCooldown(cooldowns[CooldownKey(call[t].rule_name)], now, call[t].cooldown_secs)
    /\ cooldowns' = [cooldowns EXCEPT ![CooldownKey(call[t].rule_name)] = now]
    /\ lockHolder' = NoTask
    /\ call' = [call EXCEPT ![t].passed = FALSE, ![t].result = "ok"]
    /\ pc' = [pc EXCEPT ![t] = "idle"]
    /\ UNCHANGED <<handlers, lastRegistered, now, crossed, started>>
    /\ UNCHANGED <<pipelineVars, watcherVars, serviceVars>>
GateReject(t) ==
    /\ pc[t] = "check"
    /\ InCooldown(cooldowns[CooldownKey(call[t].rule_name)], now, call[t].cooldown_secs)
    /\ lockHolder' = NoTask
    /\ call' = [call EXCEPT ![t].passed = FALSE, ![t].result = "ok"]
    /\ pc' = [pc EXCEPT ![t] = "idle"]
    /\ UNCHANGED <<handlers, lastRegistered, cooldowns, now, crossed, started>>
    /\ UNCHANGED <<pipelineVars, watcherVars, serviceVars>>

\* check_cooldown, no entry or an old one: the test falls through to the insert.
GateAdmit(t) ==
    /\ pc[t] = "check"
    /\ ~InCooldown(cooldowns[CooldownKey(call[t].rule_name)], now, call[t].cooldown_secs)
    /\ pc' = [pc EXCEPT ![t] = "insert"]
    /\ UNCHANGED <<handlers, lastRegistered, cooldowns, lockHolder, now, call, crossed, started>>
    /\ UNCHANGED <<pipelineVars, watcherVars, serviceVars>>

\* Variant: the guard of the cooldown map lives until the dispatch returns.
GateInsert_KeepsLock(t) ==
    /\ pc[t] = "insert"
    /\ cooldowns' = [cooldowns EXCEPT ![CooldownKey(call[t].rule_name)] = now]
    /\ call' = [call EXCEPT ![t].passed = TRUE, ![t].idx = 1, ![t].stamp = now]
    /\ crossed' = [crossed EXCEPT ![call[t].rule_name] = now]
    /\ pc' = [pc EXCEPT ![t] = "fanout"]
    /\ UNCHANGED <<handlers, lastRegistered, lockHolder, now, started>>
    /\ UNCHANGED <<pipelineVars, watcherVars, serviceVars>>

\* Variant: a cooldown of zero leaves no timestamp behind.
GateInsert_SkipZero(t) ==
    /\ pc[t] = "insert"
    /\ cooldowns' = IF call[t].cooldown_secs = 0
                    THEN cooldowns
                    ELSE [cooldowns EXCEPT ![call[t].rule_name] = now]
    /\ lockHolder' = NoTask
    /\ call' = [call EXCEPT ![t].passed = TRUE, ![t].idx = 1, ![t].stamp = now]
    /\ crossed' = [crossed EXCEPT ![call[t].rule_name] = now]
    /\ pc' = [pc EXCEPT ![t] = "fanout"]
    /\ UNCHANGED <<handlers, lastRegistered, now, started>>
    /\ UNCHANGED <<pipelineVars, watcherVars, serviceVars>>

\* Variant: the gate passes without writing the timestamp.
GateInsert_NoWrite(t) ==
    /\ pc[t] = "insert"
    /\ lockHolder' = NoTask
    /\ call' = [call EXCEPT ![t].passed = TRUE, ![t].idx = 1, ![t].stamp = now]
    /\ crossed' = [crossed EXCEPT ![call[t].rule_name] = now]
    /\ pc' = [pc EXCEPT ![t] = "fanout"]
    /\ UNCHANGED <<handlers, lastRegistered, cooldowns, now, started>>
    /\ UNCHANGED <<pipelineVars, watcherVars, serviceVars>>

\* check_cooldown: cooldowns.insert(rule_name, Instant::now()); true.  The clock
\* is read a second time here.  The guard drops on return, and the caller goes
\* on to its targets.
GateInsert(t) ==
    /\ pc[t] = "insert"
    /\ cooldowns' = [cooldowns EXCEPT ![CooldownKey(call[t].rule_name)] = now]
    /\ lockHolder' = NoTask
    /\ call' = [call EXCEPT ![t].passed = TRUE, ![t].idx = 1, ![t].stamp = now]
    /\ crossed' = [crossed EXCEPT ![call[t].rule_name] = now]
    /\ pc' = [pc EXCEPT ![t] = "fanout"]
    /\ UNCHANGED <<handlers, lastRegistered, now, started>>
    /\ UNCHANGED <<pipelineVars, watcherVars, serviceVars>>

\* ---- fan-out

\* The target the call is about to look up.
Target(c) == c.alert_names[c.idx]

\* The call's position: in the loop, or returned once its result is known.
AfterStep(c) == IF c.result = "pending" THEN "fanout" ELSE "idle"

\* send_alert: self.handlers.get(alert_name).ok_or_else(..)? on a missing name.
\* Variant: a missing name is not reported.
SingleLookupMissing_Ok(c) == [c EXCEPT !.result = "ok"]
SingleLookupMissing(c) == [c EXCEPT !.result = "err"]

\* send_alert_multi: self.handlers.get(alert_name).ok_or_else(..)? on a missing
\* name: the ? leaves the loop and the function with the error.
\* Variant: a missing name is skipped and the loop goes on.
MultiLookupMissing_Skip(c) ==
    [c EXCEPT !.idx = c.idx + 1,
              !.result = IF c.idx = Len(c.alert_names) THEN "ok" ELSE "pending"]
MultiLookupMissing(c) == [c EXCEPT !.result = "err"]

\* send_alert: handler.send(rule_name, message).await is the function's value.
\* Variant: the send error is dropped.
SingleAfterSend_Swallow(c, ok) ==
    [c EXCEPT !.send_errs = IF ok THEN c.send_errs ELSE c.send_errs + 1,
              !.result = "ok"]
SingleAfterSend(c, ok) ==
    [c EXCEPT !.send_errs = IF ok THEN c.send_errs ELSE c.send_errs + 1,
              !.result = IF ok THEN "ok" ELSE "err"]

\* send_alert_multi: if let Err(e) = handler.send(..).await { error!(..) }, then
\* the next name; Ok(()) after the last one.
\* Variant: a send error leaves the loop (handler.send(..).await?).
MultiAfterSend_Propagate(c, ok) ==
    [c EXCEPT !.idx = c.idx + 1,
              !.send_errs = IF ok THEN c.send_errs ELSE c.send_errs + 1,
              !.result = IF ~ok THEN "err"
                         ELSE IF c.idx = Len(c.alert_names) THEN "ok" ELSE "pending"]
MultiAfterSend(c, ok) ==
    [c EXCEPT !.idx = c.idx + 1,
              !.send_errs = IF ok THEN c.send_errs ELSE c.send_errs + 1,
              !.result = IF c.idx = Len(c.alert_names) THEN "ok" ELSE "pending"]

\* The lookup of the current target fails.
LookupMissing(t) ==
    /\ pc[t] = "fanout"
    /\ ~Registered(Target(call[t]))
    /\ call' = [call EXCEPT ![t] = IF call[t].kind = "single"
                                   THEN SingleLookupMissing(call[t])
                                   ELSE MultiLookupMissing(call[t])]
    /\ pc' = [pc EXCEPT ![t] = AfterStep(call'[t])]
    /\ UNCHANGED <<handlers, lastRegistered, cooldowns, lockHolder, now, crossed, started>>
    /\ UNCHANGED <<pipelineVars, watcherVars, serviceVars>>

\* The lookup succeeds and the handler's send is invoked; the task waits for it.
InvokeSend(t) ==
    /\ pc[t] = "fanout"
    /\ Registered(Target(call[t]))
    /\ call' = [call EXCEPT ![t].sends =
                   Append(@, [name |-> Target(call[t]),
                              handler |-> handlers[Target(call[t])]])]
    /\ pc' = [pc EXCEPT ![t] = "sending"]
    /\ UNCHANGED <<handlers, lastRegistered, cooldowns, lockHolder, now, crossed, started>>
    /\ UNCHANGED <<pipelineVars, watcherVars, serviceVars>>

\* The handler's send returns Ok (ok = TRUE) or Err (ok = FALSE).
CompleteSend(t, ok) ==
    /\ pc[t] = "sending"
    /\ call' = [call EXCEPT ![t] = IF call[t].kind = "single"
                                   THEN SingleAfterSend(call[t], ok)
                                   ELSE MultiAfterSend(call[t], ok)]
    /\ pc' = [pc EXCEPT ![t] = AfterStep(call'[t])]
    /\ UNCHANGED <<handlers, lastRegistered, cooldowns, lockHolder, now, crossed, started>>
    /\ UNCHANGED <<pipelineVars, watcherVars, serviceVars>>

\* A call has returned (its record stays until the task's next call).
Returned(t) == pc[t] = "idle" /\ call[t].result # "pending"

\* ---- the dispatcher under concurrent callers (the cooldown gate)

Next ==
    \/ Tick
    \/ \E n \in AlertNames : Register(n, "h1")
    \/ \E t \in Tasks, r \in RuleNames, c \in Cooldowns :
          CallSendAlert(t, "a1", r, c)
    \/ \E t \in Tasks, ns \in GateTargetLists, r \in RuleNames, c \in Cooldowns :
          CallSendAlertMulti(t, ns, r, c)
    \/ \E t \in Tasks : AcquireLock(t)
    \/ \E t \in Tasks : GateReject(t)
    \/ \E t \in Tasks : GateAdmit(t)
    \/ \E t \in Tasks : GateInsert(t)
    \/ \E t \in Tasks : LookupMissing(t)
    \/ \E t \in Tasks : InvokeSend(t)
    \/ \E t \in Tasks, ok \in BOOLEAN : CompleteSend(t, ok)

Spec == Init /\ [][Next]_vars

\* ---- the dispatcher under one caller (the fan-out): every target list, both
\* kinds of call, every handler

FanTask == "stdout_task"

FanNext ==
    \/ Tick
    \/ \E n \in AlertNames, h \in HandlerIds : Register(n, h)
    \/ \E n \in AlertNames, r \in RuleNames, c \in Cooldowns :
          CallSendAlert(FanTask, n, r, c)
    \/ \E ns \in TargetLists, r \in RuleNames, c \in Cooldowns :
          CallSendAlertMulti(FanTask, ns, r, c)
    \/ AcquireLock(FanTask)
    \/ GateReject(FanTask)
    \/ GateAdmit(FanTask)
    \/ GateInsert(FanTask)
    \/ LookupMissing(FanTask)
    \/ InvokeSend(FanTask)
    \/ \E ok \in BOOLEAN : CompleteSend(FanTask, ok)

FanSpec == Init /\ [][FanNext]_vars

\* ------------------------------------------- the rule pipeline: actions

\* The entry process_line makes when it calls send_alert_multi for a rule.
Dispatch(rule, message) ==
    [ rule_name |-> rule.name, alert_names |-> rule.alert_names,
      message |-> message, cooldown_secs |-> rule.cooldown, result |-> "pending" ]

\* history: a match of the rule at instant t, which fired or did not.
RecordMatch(log, fired, t) == IF fired THEN <<>> ELSE Append(log, t)

\* watch_file_once read a line from tail: lines over MAX_LINE_LENGTH are
\* skipped, the others go to process_line.
FileLine(path, line) ==
    /\ proc.status = "idle"
    /\ LET source == [kind |-> "File", name |-> path] IN
         proc' = IF len(line) > MAX_LINE_LENGTH
                 THEN Skipped(line, source)
                 ELSE EnterProcessLine("log", line, source)
    /\ UNCHANGED <<config, unconsumed>>
    /\ UNCHANGED <<dispatcherVars, watcherVars, serviceVars>>

\* A reader task of watch_container_once read a line from docker logs.
ContainerLine(name, line) ==
    /\ proc.status = "idle"
    /\ LET source == [kind |-> "Container", name |-> name] IN
         proc' = IF len(line) > MAX_LINE_LENGTH
                 THEN Skipped(line, source)
                 ELSE EnterProcessLine("log", line, source)
    /\ UNCHANGED <<config, unconsumed>>
    /\ UNCHANGED <<dispatcherVars, watcherVars, serviceVars>>

\* watch_websocket / watch_http / watch_tcp received a line: it goes to
\* StreamMonitor::process_line as it is.
StreamLine(name, line) ==
    /\ proc.status = "idle"
    /\ proc' = EnterProcessLine("stream", line, [kind |-> "Stream", name |-> name])
    /\ UNCHANGED <<config, unconsumed>>
    /\ UNCHANGED <<dispatcherVars, watcherVars, serviceVars>>

\* LogMonitor::process_line, one turn of the loop: the rule is skipped if it
\* does not apply to the source; otherwise its matcher runs, and on a match
\* send_alert_multi is called with the line as message.
EvalRule ==
    /\ proc.status = "eval"
    /\ proc.monitor = "log"
    /\ LET rule == LogMonitor_rules[proc.idx] IN
         IF ~LogMonitor_rule_applies_to_source(rule, proc.source)
         THEN /\ proc' = NextRule(proc)
              /\ UNCHANGED unconsumed
         ELSE LET matched == IF rule.matcher.kind = "Text"
                             THEN contains(proc.line, rule.matcher.text)
                             ELSE is_match(rule.matcher.regex, proc.line)
                  tried == [proc EXCEPT !.tried = @ \cup {rule.name}]
              IN  IF matched
                  THEN /\ proc' = [tried EXCEPT
                                     !.status = "awaiting",
                                     !.dispatched = Append(@, Dispatch(rule, proc.line))]
                       /\ unconsumed' = [unconsumed EXCEPT
                                           ![rule.name] = RecordMatch(@, TRUE, now)]
                  ELSE /\ proc' = NextRule(tried)
                       /\ UNCHANGED unconsumed
    /\ UNCHANGED config
    /\ UNCHANGED <<dispatcherVars, watcherVars, serviceVars>>

\* StreamMonitor::process_line, one turn of the loop: the rule's regex runs on
\* the line; on a match send_alert_multi is called with a message made of the
\* rule, the stream and the line.  The regex of a rule written with text and
\* no pattern is not determined by the source: either outcome is allowed.
StreamEvalRule(text_rule_matches) ==
    /\ proc.status = "eval"
    /\ proc.monitor = "stream"
    /\ LET rule == StreamMonitor_rules[proc.idx] IN
         IF ~StreamMonitor_rule_applies_to_source(rule, proc.source)
         THEN /\ proc' = NextRule(proc)
              /\ UNCHANGED unconsumed
         ELSE LET matched == IF rule.regex # None
                             THEN is_match(unwrap(rule.regex), proc.line)
                             ELSE text_rule_matches
                  tried == [proc EXCEPT !.tried = @ \cup {rule.name}]
                  message == [rule |-> rule.name, stream |-> proc.source.name,
                              line |-> proc.line]
              IN  IF matched
                  THEN /\ proc' = [tried EXCEPT
                                     !.status = "awaiting",
                                     !.dispatched = Append(@, Dispatch(rule, message))]
                       /\ unconsumed' = [unconsumed EXCEPT
                                           ![rule.name] = RecordMatch(@, TRUE, now)]
                  ELSE /\ proc' = NextRule(tried)
                       /\ UNCHANGED unconsumed
    /\ UNCHANGED config
    /\ UNCHANGED <<dispatcherVars, watcherVars, serviceVars>>

\* Variant: an error of send_alert_multi ends process_line.
SendAlertMultiReturns_StopOnError(ok) ==
    /\ proc.status = "awaiting"
    /\ LET recorded == [proc EXCEPT !.dispatched[Len(proc.dispatched)].result =
                                       IF ok THEN "ok" ELSE "err"]
       IN  proc' = IF ok THEN NextRule(recorded)
                   ELSE [recorded EXCEPT !.idx = Len(config) + 1, !.status = "idle"]
    /\ UNCHANGED <<config, unconsumed>>
    /\ UNCHANGED <<dispatcherVars, watcherVars, serviceVars>>

\* send_alert_multi returns to process_line: an error is logged, and the loop
\* goes on with the next rule either way.
SendAlertMultiReturns(ok) ==
    /\ proc.status = "awaiting"
    /\ proc' = NextRule([proc EXCEPT !.dispatched[Len(proc.dispatched)].result =
                                        IF ok THEN "ok" ELSE "err"])
    /\ UNCHANGED <<config, unconsumed>>
    /\ UNCHANGED <<dispatcherVars, watcherVars, serviceVars>>

\* The monitors are built from one of the configurations.
PipeInit ==
    /\ ManagerNew
    /\ ServicesOff
    /\ config \in Configs
    /\ proc = NoProc
    /\ unconsumed = [r \in RuleNames |-> <<>>]
    /\ WatcherOff

PipeNext ==
    \/ \E path \in SourceNames, line \in Lines : FileLine(path, line)
    \/ \E name \in SourceNames, line \in Lines : ContainerLine(name, line)
    \/ \E name \in SourceNames, line \in Lines : StreamLine(name, line)
    \/ EvalRule
    \/ \E b \in BOOLEAN : StreamEvalRule(b)
    \/ \E ok \in BOOLEAN : SendAlertMultiReturns(ok)

PipeSpec == PipeInit /\ [][PipeNext]_vars

\* ---------------------------------------- the child-process watchers: actions

\* watch_file_once / watch_container_once returns Ok(()) or Err(..).
Return(w, result) == [w EXCEPT !.pc = "returned", !.result = result]

\* cmd.kill(): ends the child if it is running.
Kill(c) == IF c = "running" THEN "killed" ELSE c

\* Dropping the Child of the previous attempt does not end it (kill_on_drop is
\* not set): if it still runs, it stays alive beside the next child.
Leaked == orphans + (IF child = "running" THEN 1 ELSE 0)

\* The pipes the watcher reads: stdout of tail; stdout and stderr of docker logs.
Piped(t) == watcher.kind = "container" \/ t = "stdout_task"

\* Command::spawn succeeds: a new child runs, its pipes are empty.
Spawn ==
    /\ watcher.pc = "loop"
    /\ watcher.attempts < MaxAttempts
    /\ watcher' = [watcher EXCEPT !.pc = "spawned", !.attempts = @ + 1,
                                  !.attached = FALSE, !.result = "none"]
    /\ child' = "running"
    /\ orphans' = Leaked
    /\ pipe' = [t \in Tasks |-> <<>>]
    /\ reader' = [t \in Tasks |-> ReaderOff]
    /\ arrived' = 0
    /\ completed' = {}
    /\ UNCHANGED <<dispatcherVars, pipelineVars, serviceVars>>

\* Command::spawn fails: the attempt returns the error.
SpawnFails ==
    /\ watcher.pc = "loop"
    /\ watcher.attempts < MaxAttempts
    /\ watcher' = [Return(watcher, "err") EXCEPT !.attempts = @ + 1,
                                                !.attached = FALSE]
    /\ child' = "none"
    /\ orphans' = Leaked
    /\ pipe' = [t \in Tasks |-> <<>>]
    /\ reader' = [t \in Tasks |-> ReaderOff]
    /\ arrived' = 0
    /\ completed' = {}
    /\ UNCHANGED <<dispatcherVars, pipelineVars, serviceVars>>

\* cmd.stdout.take() / cmd.stderr.take() gives None: the attempt returns the
\* error by `?`, the child is left as it is.
CaptureFails ==
    /\ watcher.pc = "spawned"
    /\ watcher' = Return(watcher, "err")
    /\ UNCHANGED <<child, orphans, pipe, reader, arrived, completed>>
    /\ UNCHANGED <<dispatcherVars, pipelineVars, serviceVars>>

\* The pipes are taken and the reading starts: watch_file_once reads stdout in
\* its own loop, watch_container_once spawns one reader task per pipe.
Capture ==
    /\ watcher.pc = "spawned"
    /\ watcher' = [watcher EXCEPT !.pc = "watching", !.attached = TRUE]
    /\ reader' = [t \in Tasks |->
                    IF Piped(t) THEN [pc |-> "reading", cur |-> 0] ELSE ReaderOff]
    /\ UNCHANGED <<child, orphans, pipe, arrived, completed>>
    /\ UNCHANGED <<dispatcherVars, pipelineVars, serviceVars>>

\* The child writes a line to one of its pipes; the line is valid UTF-8 or not.
ChildWrites(t, utf8) ==
    /\ child = "running"
    /\ watcher.pc \in {"spawned", "watching"}
    /\ Piped(t)
    /\ arrived < MaxLines
    /\ arrived' = arrived + 1
    /\ pipe' = [pipe EXCEPT ![t] = Append(@, [seq |-> arrived + 1, utf8 |-> utf8])]
    /\ UNCHANGED <<watcher, child, orphans, reader, completed>>
    /\ UNCHANGED <<dispatcherVars, pipelineVars, serviceVars>>

\* The child exits on its own.
ChildExits ==
    /\ child = "running"
    /\ watcher.pc # "ended"
    /\ child' = "exited"
    /\ UNCHANGED <<watcher, orphans, pipe, reader, arrived, completed>>
    /\ UNCHANGED <<dispatcherVars, pipelineVars, serviceVars>>

\* watch_file_once, select branch lines.next_line() = Ok(Some(line)): the line
\* goes to process_line, which is awaited inside the loop.
FileNextLine ==
    /\ watcher.kind = "file" /\ watcher.pc = "watching"
    /\ reader["stdout_task"].pc = "reading"
    /\ pipe["stdout_task"] # <<>>
    /\ Head(pipe["stdout_task"]).utf8
    /\ reader' = [reader EXCEPT !["stdout_task"] =
                    [pc |-> "processing", cur |-> Head(pipe["stdout_task"]).seq]]
    /\ pipe' = [pipe EXCEPT !["stdout_task"] = Tail(@)]
    /\ UNCHANGED <<watcher, child, orphans, arrived, completed>>
    /\ UNCHANGED <<dispatcherVars, pipelineVars, serviceVars>>

\* watch_file_once, select branch lines.next_line() = Err(e): next_line fails
\* on bytes that are not valid UTF-8; the child is killed and the error returned.
FileReadError ==
    /\ watcher.kind = "file" /\ watcher.pc = "watching"
    /\ reader["stdout_task"].pc = "reading"
    /\ pipe["stdout_task"] # <<>>
    /\ ~Head(pipe["stdout_task"]).utf8
    /\ pipe' = [pipe EXCEPT !["stdout_task"] = Tail(@)]
    /\ completed' = completed \cup {Head(pipe["stdout_task"]).seq}
    /\ child' = Kill(child)
    /\ watcher' = Return(watcher, "err")
    /\ reader' = [reader EXCEPT !["stdout_task"].pc = "stopped"]
    /\ UNCHANGED <<orphans, arrived>>
    /\ UNCHANGED <<dispatcherVars, pipelineVars, serviceVars>>

\* watch_file_once, select branch lines.next_line() = Ok(None): end of the
\* pipe; the loop breaks, the child is killed, Ok(()) is returned.
FileEof ==
    /\ watcher.kind = "file" /\ watcher.pc = "watching"
    /\ reader["stdout_task"].pc = "reading"
    /\ pipe["stdout_task"] = <<>>
    /\ child # "running"
    /\ child' = Kill(child)
    /\ watcher' = Return(watcher, "ok")
    /\ reader' = [reader EXCEPT !["stdout_task"].pc = "stopped"]
    /\ UNCHANGED <<orphans, pipe, arrived, completed>>
    /\ UNCHANGED <<dispatcherVars, pipelineVars, serviceVars>>

\* watch_file_once, select branch cmd.wait() = Ok(exit_status): the child has
\* exited; an error is returned.
FileChildExited ==
    /\ watcher.kind = "file" /\ watcher.pc = "watching"
    /\ reader["stdout_task"].pc = "reading"
    /\ child = "exited"
    /\ watcher' = Return(watcher, "err")
    /\ reader' = [reader EXCEPT !["stdout_task"].pc = "stopped"]
    /\ UNCHANGED <<child, orphans, pipe, arrived, completed>>
    /\ UNCHANGED <<dispatcherVars, pipelineVars, serviceVars>>

\* Select branch cmd.wait() = Err(e), in either watcher: the error is returned
\* and the child is left as it is.
WaitFails ==
    /\ watcher.pc = "watching"
    /\ watcher.kind = "file" => reader["stdout_task"].pc = "reading"
    /\ watcher' = Return(watcher, "err")
    /\ reader' = IF watcher.kind = "file"
                 THEN [reader EXCEPT !["stdout_task"].pc = "stopped"]
                 ELSE reader
    /\ UNCHANGED <<child, orphans, pipe, arrived, completed>>
    /\ UNCHANGED <<dispatcherVars, pipelineVars, serviceVars>>

\* process_line returns for the line a reading loop handed to it.
ProcessLineReturns(t) ==
    /\ reader[t].pc = "processing"
    /\ completed' = completed \cup {reader[t].cur}
    /\ reader' = [reader EXCEPT ![t] = [pc |-> "reading", cur |-> 0]]
    /\ UNCHANGED <<watcher, child, orphans, pipe, arrived>>
    /\ UNCHANGED <<dispatcherVars, pipelineVars, serviceVars>>

\* A reader task of watch_container_once gets Ok(Some(line)) and calls
\* process_line; the task runs on its own, beside the other reader.
ReaderNextLine(t) ==
    /\ watcher.kind = "container" /\ watcher.pc # "ended"
    /\ reader[t].pc = "reading"
    /\ pipe[t] # <<>>
    /\ Head(pipe[t]).utf8
    /\ reader' = [reader EXCEPT ![t] = [pc |-> "processing", cur |-> Head(pipe[t]).seq]]
    /\ pipe' = [pipe EXCEPT ![t] = Tail(@)]
    /\ UNCHANGED <<watcher, child, orphans, arrived, completed>>
    /\ UNCHANGED <<dispatcherVars, pipelineVars, serviceVars>>

\* A reader task gets Err(e) (bytes that are not valid UTF-8): its
\* `while let Ok(Some(line))` loop ends.
ReaderReadError(t) ==
    /\ watcher.kind = "container" /\ watcher.pc # "ended"
    /\ reader[t].pc = "reading"
    /\ pipe[t] # <<>>
    /\ ~Head(pipe[t]).utf8
    /\ pipe' = [pipe EXCEPT ![t] = Tail(@)]
    /\ completed' = completed \cup {Head(pipe[t]).seq}
    /\ reader' = [reader EXCEPT ![t].pc = "stopped"]
    /\ UNCHANGED <<watcher, child, orphans, arrived>>
    /\ UNCHANGED <<dispatcherVars, pipelineVars, serviceVars>>

\* A reader task gets Ok(None) (end of the pipe): its loop ends.
ReaderEof(t) ==
    /\ watcher.kind = "container" /\ watcher.pc # "ended"
    /\ reader[t].pc = "reading"
    /\ pipe[t] = <<>>
    /\ child # "running"
    /\ reader' = [reader EXCEPT ![t].pc = "stopped"]
    /\ UNCHANGED <<watcher, child, orphans, pipe, arrived, completed>>
    /\ UNCHANGED <<dispatcherVars, pipelineVars, serviceVars>>

\* watch_container_once, select branch try_join!(stdout_task, stderr_task):
\* both readers have ended; the child is killed and Ok(()) returned.
StreamsFinished ==
    /\ watcher.kind = "container" /\ watcher.pc = "watching"
    /\ \A t \in Tasks : reader[t].pc = "stopped"
    /\ child' = Kill(child)
    /\ watcher' = Return(watcher, "ok")
    /\ UNCHANGED <<orphans, pipe, reader, arrived, completed>>
    /\ UNCHANGED <<dispatcherVars, pipelineVars, serviceVars>>

\* watch_container_once, select branch cmd.wait() = Ok(exit_status): an error
\* is returned; the reader tasks are left running.
ContainerChildExited ==
    /\ watcher.kind = "container" /\ watcher.pc = "watching"
    /\ child = "exited"
    /\ watcher' = Return(watcher, "err")
    /\ UNCHANGED <<child, orphans, pipe, reader, arrived, completed>>
    /\ UNCHANGED <<dispatcherVars, pipelineVars, serviceVars>>

\* The retry loop after an attempt: Ok resets retry_delay to
\* INITIAL_RETRY_DELAY, Err keeps it; then sleep(retry_delay) starts.
Sleep ==
    /\ watcher.pc = "returned"
    /\ LET delay == IF watcher.result = "ok" THEN INITIAL_RETRY_DELAY
                    ELSE watcher.retry_delay
       IN  watcher' = [watcher EXCEPT
                         !.pc = "sleeping", !.retry_delay = delay, !.slept = delay,
                         !.fails = IF watcher.result = "ok" THEN 0 ELSE @ + 1]
    /\ UNCHANGED <<child, orphans, pipe, reader, arrived, completed>>
    /\ UNCHANGED <<dispatcherVars, pipelineVars, serviceVars>>

\* The sleep is over: retry_delay = (retry_delay * 2).min(MAX_RETRY_DELAY),
\* and the loop starts the next attempt.
WakeUp ==
    /\ watcher.pc = "sleeping"
    /\ watcher' = [watcher EXCEPT
                     !.pc = "loop",
                     !.retry_delay = min(watcher.retry_delay * 2, MAX_RETRY_DELAY)]
    /\ UNCHANGED <<child, orphans, pipe, reader, arrived, completed>>
    /\ UNCHANGED <<dispatcherVars, pipelineVars, serviceVars>>

\* The process is interrupted (Ctrl+C).  handle_watch installs no handler and
\* passes no shutdown signal to the watchers: the process ends with all its
\* tasks, wherever they stand.  The children get the signal too if they share
\* the terminal's foreground group, and not otherwise.
Interrupt(children_hit) ==
    /\ watcher.pc \notin {"off", "ended"}
    /\ watcher' = [watcher EXCEPT !.pc = "ended"]
    /\ reader' = [t \in Tasks |-> ReaderOff]
    /\ child' = IF children_hit /\ child = "running" THEN "exited" ELSE child
    /\ orphans' = IF children_hit THEN 0 ELSE orphans
    /\ UNCHANGED <<pipe, arrived, completed>>
    /\ UNCHANGED <<dispatcherVars, pipelineVars, serviceVars>>

\* handle_watch spawns the watcher of one file or of one container.
WatchInit ==
    /\ ManagerNew
    /\ PipelineOff
    /\ ServicesOff
    /\ watcher \in {StartWatcher(kind) : kind \in WatcherKinds}
    /\ child = "none"
    /\ orphans = 0
    /\ pipe = [t \in Tasks |-> <<>>]
    /\ reader = [t \in Tasks |-> ReaderOff]
    /\ arrived = 0
    /\ completed = {}

WatchNext ==
    \/ Spawn
    \/ SpawnFails
    \/ CaptureFails
    \/ Capture
    \/ \E t \in Tasks, utf8 \in BOOLEAN : ChildWrites(t, utf8)
    \/ ChildExits
    \/ FileNextLine
    \/ FileReadError
    \/ FileEof
    \/ FileChildExited
    \/ WaitFails
    \/ \E t \in Tasks : ProcessLineReturns(t)
    \/ \E t \in Tasks : ReaderNextLine(t)
    \/ \E t \in Tasks : ReaderReadError(t)
    \/ \E t \in Tasks : ReaderEof(t)
    \/ StreamsFinished
    \/ ContainerChildExited
    \/ Sleep
    \/ WakeUp
    \/ \E children_hit \in BOOLEAN : Interrupt(children_hit)

WatchSpec == WatchInit /\ [][WatchNext]_vars

\* --------------------------------------------- stream sources: watch_stream

\* The largest number of failed attempts the history counts.
MaxReconnects == 3

StreamTypes == {"Websocket", "Http", "Tcp"}

\* reconnect_delay: Option<u64>, seconds.
ReconnectDelays == {None, Some(0), Some(1), Some(5), Some(30)}

StreamConfigs == [stream_type : StreamTypes, reconnect_delay : ReconnectDelays]

\* StreamConfig::get_reconnect_delay: self.reconnect_delay.unwrap_or(5).
get_reconnect_delay(stream_config) ==
    IF stream_config.reconnect_delay = None THEN 5
    ELSE unwrap(stream_config.reconnect_delay)

\* How an attempt (watch_websocket, watch_http, watch_tcp) can end.
StreamEnds == {"connect error", "bad status", "read error", "stream ended"}

\* watch_*, had a clean end of the stream been a success.
watch_result_CleanEndOk(ending) == IF ending = "stream ended" THEN "Ok" ELSE "Err"

\* The value watch_websocket, watch_http and watch_tcp return: the connect, the
\* status check and the reads return their error, and after the reading loop
\* the function ends with Err("... stream ended").
watch_result(ending) == "Err"

\* watch_stream is called: the loop is about to make its first attempt.
StartStream(stream_config) ==
    [ stream_config |-> stream_config, pc |-> "loop", ending |-> "none",
      sleep_secs |-> 0, failures |-> 0, received |-> FALSE ]

\* An attempt ends and control is back in watch_stream's loop: on Err it
\* sleeps get_reconnect_delay() seconds, on Ok it loops at once.
AttemptEnds(ending) ==
    /\ stream' =
          IF watch_result(ending) = "Err"
          THEN [stream EXCEPT !.pc = "sleeping", !.ending = ending,
                              !.sleep_secs = get_reconnect_delay(stream.stream_config),
                              !.failures = min(stream.failures + 1, MaxReconnects)]
          ELSE [stream EXCEPT !.pc = "loop", !.ending = ending]
    /\ UNCHANGED <<health, resource, startup, parsed>>
    /\ UNCHANGED adjunctVars
    /\ UNCHANGED <<dispatcherVars, pipelineVars, watcherVars>>

\* The loop calls the function for the stream type, which starts to connect.
StreamConnect ==
    /\ stream.pc = "loop"
    /\ stream' = [stream EXCEPT !.pc = "connecting", !.received = FALSE]
    /\ UNCHANGED <<health, resource, startup, parsed>>
    /\ UNCHANGED adjunctVars
    /\ UNCHANGED <<dispatcherVars, pipelineVars, watcherVars>>

\* connect_async / request.send() / TcpStream::connect fails: `?` returns it.
StreamConnectFails ==
    /\ stream.pc = "connecting"
    /\ AttemptEnds("connect error")

\* The connection is made; watch_http then looks at the status.
StreamConnected ==
    /\ stream.pc = "connecting"
    /\ stream' = [stream EXCEPT
          !.pc = IF stream.stream_config.stream_type = "Http" THEN "status"
                 ELSE "reading"]
    /\ UNCHANGED <<health, resource, startup, parsed>>
    /\ UNCHANGED adjunctVars
    /\ UNCHANGED <<dispatcherVars, pipelineVars, watcherVars>>

\* watch_http: !response.status().is_success() returns an error.
StreamHttpStatus(is_success) ==
    /\ stream.pc = "status"
    /\ IF is_success
       THEN /\ stream' = [stream EXCEPT !.pc = "reading"]
            /\ UNCHANGED <<health, resource, startup, parsed>>
            /\ UNCHANGED adjunctVars
            /\ UNCHANGED <<dispatcherVars, pipelineVars, watcherVars>>
       ELSE AttemptEnds("bad status")

\* A message, chunk or line arrives; its lines go through process_line (the
\* rule pipeline) and the reading loop goes on.
StreamReceives ==
    /\ stream.pc = "reading"
    /\ stream' = [stream EXCEPT !.received = TRUE]
    /\ UNCHANGED <<health, resource, startup, parsed>>
    /\ UNCHANGED adjunctVars
    /\ UNCHANGED <<dispatcherVars, pipelineVars, watcherVars>>

\* A read fails: Err(e) message, chunk error, next_line error.
StreamReadFails ==
    /\ stream.pc = "reading"
    /\ AttemptEnds("read error")

\* The peer closes or the stream is exhausted: the reading loop is left.
StreamEnded ==
    /\ stream.pc = "reading"
    /\ AttemptEnds("stream ended")

\* tokio::time::sleep returns and the loop goes round.
StreamWakeUp ==
    /\ stream.pc = "sleeping"
    /\ stream' = [stream EXCEPT !.pc = "loop"]
    /\ UNCHANGED <<health, resource, startup, parsed>>
    /\ UNCHANGED adjunctVars
    /\ UNCHANGED <<dispatcherVars, pipelineVars, watcherVars>>

\* One stream source of any type and reconnect delay.
StreamInit ==
    /\ ManagerNew
    /\ PipelineOff
    /\ WatcherOff
    /\ HealthOff /\ ResourceOff /\ StartupOff /\ ParsedOff /\ AdjunctOff
    /\ \E stream_config \in StreamConfigs : stream = StartStream(stream_config)

StreamNext ==
    \/ StreamConnect
    \/ StreamConnectFails
    \/ StreamConnected
    \/ \E is_success \in BOOLEAN : StreamHttpStatus(is_success)
    \/ StreamReceives
    \/ StreamReadFails
    \/ StreamEnded
    \/ StreamWakeUp

StreamSpec == StreamInit /\ [][StreamNext]_vars

\* ------------------------------------------ health checks: run_health_check

\* The largest number of polls of a health check.
MaxPolls == 4

\* HealthCheck.missed_threshold: u32.
MissedThresholds == {1, 2, 3}

\* HealthCheck.name, the rule key of its alerts; the cooldown map is shared
\* with the rules, which may carry the same name.
CheckNames == {"r1"}

\* HealthCheck: the fields run_health_check decides on.
HealthChecks ==
    [name : CheckNames, missed_threshold : MissedThresholds, threshold : Thresholds]

\* check_cooldown as one critical section of the cooldowns mutex, at clock
\* value t: the map afterwards and whether the dispatch passes.
check_cooldown(map, rule_name, cooldown_secs, t) ==
    LET key == CooldownKey(rule_name)
        rejected == InCooldown(map[key], t, cooldown_secs)
    IN  [ passed |-> ~rejected,
          map |-> IF rejected THEN map ELSE [map EXCEPT ![key] = t] ]

\* The while loop of check_failure_threshold: pop_front while the oldest entry
\* is before the cutoff.
RECURSIVE evict(_, _)
evict(history, cutoff) ==
    IF history # <<>> /\ Head(history) < cutoff THEN evict(Tail(history), cutoff)
    ELSE history

\* check_failure_threshold, had it left the history in place after firing.
check_failure_threshold_KeepsHistory(failure_history, threshold, t) ==
    LET kept == evict(Append(failure_history, t), t - from_secs(threshold.window))
    IN  [ history |-> kept, should_alert |-> Len(kept) >= threshold.count ]

\* check_failure_threshold at clock value t: push the failure, evict, and when
\* the count is reached clear the history and return true.
check_failure_threshold(failure_history, threshold, t) ==
    LET kept == evict(Append(failure_history, t), t - from_secs(threshold.window))
    IN  IF Len(kept) >= threshold.count
        THEN [ history |-> <<>>, should_alert |-> TRUE ]
        ELSE [ history |-> kept, should_alert |-> FALSE ]

\* The consecutive test, had it been strict.
consecutive_reached_Strict(consecutive_failures, missed_threshold) ==
    consecutive_failures > missed_threshold

\* consecutive_failures >= check.missed_threshold
consecutive_reached(consecutive_failures, missed_threshold) ==
    consecutive_failures >= missed_threshold

\* run_health_check is called: its locals before the first tick.
StartHealthCheck(check) ==
    [ check |-> check, consecutive_failures |-> 0, is_down |-> FALSE,
      failure_history |-> <<>>, polls |-> <<>>, alerts |-> <<>> ]

\* The alert a poll dispatches: send_alert_multi(&check.alert, &check.name, _, 0).
HealthAlert(kind, gate) ==
    [ kind |-> kind, poll |-> Len(health.polls) + 1, cooldown_secs |-> 0,
      passed |-> gate.passed ]

\* One round of the loop with perform_check returning Ok(()).
PollSucceeds ==
    LET gate == check_cooldown(cooldowns, health.check.name, 0, now)
    IN  /\ Len(health.polls) < MaxPolls
        /\ health' = [health EXCEPT
              !.polls = Append(@, [ok |-> TRUE, at |-> now]),
              !.alerts = IF health.is_down THEN Append(@, HealthAlert("UP", gate))
                         ELSE @,
              !.is_down = FALSE,
              !.consecutive_failures = 0,
              !.failure_history = IF health.check.threshold # None THEN <<>> ELSE @]
        /\ cooldowns' = IF health.is_down THEN gate.map ELSE cooldowns
        /\ UNCHANGED <<handlers, lastRegistered, lockHolder, now, pc, call, crossed, started>>
        /\ UNCHANGED <<stream, resource, startup, parsed>>
        /\ UNCHANGED adjunctVars
        /\ UNCHANGED <<pipelineVars, watcherVars>>

\* Variant: the DOWN alert is sent at every poll that reaches the threshold,
\* down already or not.
PollFails_Realerts ==
    LET consecutive_failures == health.consecutive_failures + 1
        windowed == health.check.threshold # None
        cft == check_failure_threshold(health.failure_history,
                                       unwrap(health.check.threshold), now)
        should_alert ==
            IF windowed THEN cft.should_alert
            ELSE consecutive_reached(consecutive_failures, health.check.missed_threshold)
        gate == check_cooldown(cooldowns, health.check.name, 0, now)
    IN  /\ Len(health.polls) < MaxPolls
        /\ health' = [health EXCEPT
              !.polls = Append(@, [ok |-> FALSE, at |-> now]),
              !.consecutive_failures = consecutive_failures,
              !.failure_history = IF windowed THEN cft.history ELSE @,
              !.is_down = IF should_alert THEN TRUE ELSE @,
              !.alerts = IF should_alert THEN Append(@, HealthAlert("DOWN", gate)) ELSE @]
        /\ cooldowns' = IF should_alert THEN gate.map ELSE cooldowns
        /\ UNCHANGED <<handlers, lastRegistered, lockHolder, now, pc, call, crossed, started>>
        /\ UNCHANGED <<stream, resource, startup, parsed>>
        /\ UNCHANGED adjunctVars
        /\ UNCHANGED <<pipelineVars, watcherVars>>

\* One round of the loop with perform_check returning Err.
PollFails ==
    LET consecutive_failures == health.consecutive_failures + 1
        windowed == health.check.threshold # None
        cft == check_failure_threshold(health.failure_history,
                                       unwrap(health.check.threshold), now)
        should_alert ==
            IF windowed THEN cft.should_alert
            ELSE consecutive_reached(consecutive_failures, health.check.missed_threshold)
        alerting == should_alert /\ ~health.is_down
        gate == check_cooldown(cooldowns, health.check.name, 0, now)
    IN  /\ Len(health.polls) < MaxPolls
        /\ health' = [health EXCEPT
              !.polls = Append(@, [ok |-> FALSE, at |-> now]),
              !.consecutive_failures = consecutive_failures,
              !.failure_history = IF windowed THEN cft.history ELSE @,
              !.is_down = IF alerting THEN TRUE ELSE @,
              !.alerts = IF alerting THEN Append(@, HealthAlert("DOWN", gate)) ELSE @]
        /\ cooldowns' = IF alerting THEN gate.map ELSE cooldowns
        /\ UNCHANGED <<handlers, lastRegistered, lockHolder, now, pc, call, crossed, started>>
        /\ UNCHANGED <<stream, resource, startup, parsed>>
        /\ UNCHANGED adjunctVars
        /\ UNCHANGED <<pipelineVars, watcherVars>>

\* A rule that carries the check's name passes the cooldown gate: its
\* check_cooldown stamps the key the check's alerts use.
RuleStampsKey ==
    /\ cooldowns[CooldownKey(health.check.name)] # now
    /\ cooldowns' = [cooldowns EXCEPT ![CooldownKey(health.check.name)] = now]
    /\ UNCHANGED <<handlers, lastRegistered, lockHolder, now, pc, call, crossed, started>>
    /\ UNCHANGED <<pipelineVars, watcherVars, serviceVars>>

\* One health check in either mode.
HealthInit ==
    /\ ManagerNew
    /\ PipelineOff
    /\ WatcherOff
    /\ StreamOff /\ ResourceOff /\ StartupOff /\ ParsedOff /\ AdjunctOff
    /\ \E check \in HealthChecks : health = StartHealthCheck(check)

HealthNext ==
    \/ Tick
    \/ PollSucceeds
    \/ PollFails
    \/ RuleStampsKey

HealthSpec == HealthInit /\ [][HealthNext]_vars

\* ------------------------------------------------- startup: handle_watch

\* The pattern strings of the rules at startup: two that compile and one with
\* an unclosed group.
PatternStrings == { <<"E">>, <<"(", "E", ")">>, <<"(", "E">> }

\* Regex::new succeeds: the groups of the pattern are balanced.
RECURSIVE balanced(_, _)
balanced(pattern, depth) ==
    IF pattern = <<>> THEN depth = 0
    ELSE IF Head(pattern) = "(" THEN balanced(Tail(pattern), depth + 1)
    ELSE IF Head(pattern) = ")" THEN depth > 0 /\ balanced(Tail(pattern), depth - 1)
    ELSE balanced(Tail(pattern), depth)

Regex_new(pattern) == IF balanced(pattern, 0) THEN "Ok" ELSE "Err"

\* The first rule as the YAML can give it: text and pattern each present or
\* absent, one or two alert names.
StartupRule1Values ==
    [ name : {"r1"}, text : {None, Some(<<"E">>)},
      pattern : {None} \cup {Some(p) : p \in PatternStrings},
      alert : { <<"a1">>, <<"a1", "a2">> }, cooldown : {1} ]

StartupRule2 ==
    [ name |-> "r2", text |-> Some(<<"r">>), pattern |-> None,
      alert |-> <<"a2">>, cooldown |-> 0 ]

StartupRuleLists ==
    { <<r1>> : r1 \in StartupRule1Values } \cup
    { <<r1, StartupRule2>> : r1 \in StartupRule1Values }

\* Config.alerts: a1 with options that fit its type or not, a2 present or not.
StartupAlerts ==
    { [a1 |-> o1, a2 |-> o2] : o1 \in {"ok", "mismatch"}, o2 \in {"absent", "ok"} }

StartupConfigs == [alerts : StartupAlerts, rules : StartupRuleLists]

\* Rule::validate.
Rule_validate(rule) ==
    CASE rule.text = None /\ rule.pattern = None -> "Err"
      [] rule.text # None /\ rule.pattern # None -> "Err"
      [] OTHER -> "Ok"

\* The closure of LogMonitor::new on one rule: match_type panics without text
\* and pattern, takes the text if there is one, and else compiles the pattern.
compile_rule(rule) ==
    IF rule.text = None /\ rule.pattern = None THEN "panic"
    ELSE IF match_type(rule).kind = "Text" THEN "Ok"
    ELSE Regex_new(match_type(rule).regex)

\* LogMonitor::new: the rules are compiled in order, the first error or panic
\* ends it.
RECURSIVE LogMonitor_new(_)
LogMonitor_new(rules) ==
    IF rules = <<>> THEN "Ok"
    ELSE IF compile_rule(Head(rules)) # "Ok" THEN compile_rule(Head(rules))
    ELSE LogMonitor_new(Tail(rules))

\* handle_watch has loaded the configuration (Config::from_file) and made the
\* AlertManager; the entries of config.alerts are still to be registered.
StartWatch(cfg) ==
    [ config |-> cfg, pc |-> "register",
      pending |-> {n \in AlertNames : cfg.alerts[n] # "absent"}, tasks |-> 0 ]

\* One round of the loop over config.alerts: the handler is built and
\* registered, or, when the options do not fit the type, the entry is skipped.
RegisterAlert(name) ==
    /\ startup.pc = "register"
    /\ name \in startup.pending
    /\ startup' = [startup EXCEPT !.pending = @ \ {name}]
    /\ IF startup.config.alerts[name] = "ok"
       THEN /\ handlers' = [handlers EXCEPT ![name] = "h1"]
            /\ lastRegistered' = [lastRegistered EXCEPT ![name] = "h1"]
       ELSE UNCHANGED <<handlers, lastRegistered>>
    /\ UNCHANGED <<cooldowns, lockHolder, now, pc, call, crossed, started>>
    /\ UNCHANGED <<stream, health, resource, parsed>>
    /\ UNCHANGED adjunctVars
    /\ UNCHANGED <<pipelineVars, watcherVars>>

\* After the loop: LogMonitor::new(config.rules)?; on Ok the watching tasks are
\* spawned, on Err handle_watch returns it, a panic ends the process.
BuildLogMonitor ==
    /\ startup.pc = "register"
    /\ startup.pending = {}
    /\ startup' =
          CASE LogMonitor_new(startup.config.rules) = "Ok" ->
                   [startup EXCEPT !.pc = "running", !.tasks = 1]
            [] LogMonitor_new(startup.config.rules) = "Err" ->
                   [startup EXCEPT !.pc = "failed"]
            [] OTHER -> [startup EXCEPT !.pc = "panicked"]
    /\ UNCHANGED <<stream, health, resource, parsed>>
    /\ UNCHANGED adjunctVars
    /\ UNCHANGED <<dispatcherVars, pipelineVars, watcherVars>>

\* A line matches rule i of the running monitor, which dispatches to the
\* rule's alert names.
RuleDispatches(i) ==
    /\ startup.pc = "running"
    /\ CallSendAlertMulti(FanTask, startup.config.rules[i].alert,
                          startup.config.rules[i].name,
                          startup.config.rules[i].cooldown)

StartupInit ==
    /\ ManagerNew
    /\ PipelineOff
    /\ WatcherOff
    /\ StreamOff /\ HealthOff /\ ResourceOff /\ ParsedOff /\ AdjunctOff
    /\ \E cfg \in StartupConfigs : startup = StartWatch(cfg)

StartupNext ==
    \/ \E name \in AlertNames : RegisterAlert(name)
    \/ BuildLogMonitor
    \/ \E i \in 1..Len(startup.config.rules) : RuleDispatches(i)
    \/ AcquireLock(FanTask)
    \/ GateReject(FanTask)
    \/ GateAdmit(FanTask)
    \/ GateInsert(FanTask)
    \/ LookupMissing(FanTask)
    \/ InvokeSend(FanTask)
    \/ \E ok \in BOOLEAN : CompleteSend(FanTask, ok)

StartupSpec == StartupInit /\ [][StartupNext]_vars

\* ------------------------------------------- threshold strings: Threshold::parse

\* A string is a sequence of characters; a number (u32, u64 and the products
\* the code computes) is its decimal numeral without leading zeros, so that
\* values beyond 2^31 can be told apart.
WhiteSpace == {" ", "\t"}
DigitChars == <<"0", "1", "2", "3", "4", "5", "6", "7", "8", "9">>
Digits == {DigitChars[i] : i \in 1..Len(DigitChars)}
DigitVal(c) == (CHOOSE i \in 1..Len(DigitChars) : DigitChars[i] = c) - 1

\* u32::MAX, u64::MAX + 1.
U32_MAX == <<"4", "2", "9", "4", "9", "6", "7", "2", "9", "5">>
TWO_POW_64 == <<"1", "8", "4", "4", "6", "7", "4", "4", "0", "7", "3", "7", "0", "9", "5", "5", "1", "6", "1", "6">>

\* The parts the input strings are put together from.
LeadParts == { <<>>, <<" ">> }
CountParts ==
    { <<"0">>,
      <<"5">>,
      <<"0", "7">>,
      <<"4", "2", "9", "4", "9", "6", "7", "2", "9", "5">>,
      <<"4", "2", "9", "4", "9", "6", "7", "2", "9", "6">>,
      <<"x">> }
Sep1Parts == { <<" ">>, <<>>, <<"\t", " ">> }
WordParts == { <<"i", "n">>, <<>> }
Sep2Parts == { <<" ">>, <<>> }
ValueParts ==
    { <<"2">>,
      <<"9", "0">>,
      <<"5", "0", "0">>,
      <<"1", "5", "0", "0">>,
      <<"3", "0", "7", "4", "4", "5", "7", "3", "4", "5", "6", "1", "8", "2", "5", "8", "6", "0">>,
      <<"3", "0", "7", "4", "4", "5", "7", "3", "4", "5", "6", "1", "8", "2", "5", "8", "6", "1">>,
      <<"1", "8", "4", "4", "6", "7", "4", "4", "0", "7", "3", "7", "0", "9", "5", "5", "1", "6", "1", "6">> }
UnitParts == { <<"m", "s">>, <<"s">>, <<"m">>, <<"h">>, <<"d">>, <<>> }
TrailParts == { <<>>, <<" ">>, <<"x">> }

ThresholdParts ==
    [ lead : LeadParts, count : CountParts, sep1 : Sep1Parts, word : WordParts,
      sep2 : Sep2Parts, value : ValueParts, unit : UnitParts, trail : TrailParts ]

\* The string the parts spell.
Spell(p) == p.lead \o p.count \o p.sep1 \o p.word \o p.sep2 \o p.value \o p.unit \o p.trail

\* The length of the longest prefix of s made of characters of class.
RECURSIVE span(_, _)
span(s, class) ==
    IF s # <<>> /\ Head(s) \in class THEN 1 + span(Tail(s), class) ELSE 0

drop(s, n) == SubSeq(s, n + 1, Len(s))

\* re.captures(s) for ^\s*(\d+)\s+in\s+(\d+)(ms|s|m|h)\s*$ : the three groups,
\* or None.  The classes of adjacent pieces are disjoint, so the greedy match
\* is the only one.
captures(s) ==
    LET s1 == drop(s, span(s, WhiteSpace))
        n  == span(s1, Digits)
        s2 == drop(s1, n)
        b  == span(s2, WhiteSpace)
        s3 == drop(s2, b)
        s4 == drop(s3, 2)
        c  == span(s4, WhiteSpace)
        s5 == drop(s4, c)
        v  == span(s5, Digits)
        s6 == drop(s5, v)
        units == { u \in { <<"m", "s">>, <<"s">>, <<"m">>, <<"h">> } :
                     /\ Len(s6) >= Len(u)
                     /\ SubSeq(s6, 1, Len(u)) = u
                     /\ span(drop(s6, Len(u)), WhiteSpace) = Len(s6) - Len(u) }
    IN  IF /\ n >= 1 /\ b >= 1
           /\ Len(s3) >= 2 /\ SubSeq(s3, 1, 2) = <<"i", "n">>
           /\ c >= 1 /\ v >= 1
           /\ units # {}
        THEN Some([ count |-> SubSeq(s1, 1, n), value |-> SubSeq(s5, 1, v),
                    unit |-> CHOOSE u \in units : TRUE ])
        ELSE None

\* The numeral without its leading zeros.
RECURSIVE normalize(_)
normalize(ds) ==
    IF Len(ds) > 1 /\ Head(ds) = "0" THEN normalize(Tail(ds)) ELSE ds

\* a < b, for numerals without leading zeros.
less(a, b) ==
    \/ Len(a) < Len(b)
    \/ /\ Len(a) = Len(b)
       /\ \E i \in 1..Len(a) :
             /\ SubSeq(a, 1, i - 1) = SubSeq(b, 1, i - 1)
             /\ DigitVal(a[i]) < DigitVal(b[i])

\* The numeral of a natural number below 2^31.
RECURSIVE numeral(_)
numeral(n) ==
    IF n < 10 THEN <<DigitChars[n + 1]>>
    ELSE Append(numeral(n \div 10), DigitChars[(n % 10) + 1])

\* a * k + carry, for a numeral a and small k.
RECURSIVE times(_, _, _)
times(a, k, carry) ==
    IF a = <<>> THEN (IF carry = 0 THEN <<>> ELSE numeral(carry))
    ELSE LET d == DigitVal(a[Len(a)]) * k + carry
         IN  Append(times(SubSeq(a, 1, Len(a) - 1), k, d \div 10), DigitChars[(d % 10) + 1])

\* a - b - borrow for numerals with b <= a, as Len(a) digits.
RECURSIVE minus(_, _, _)
minus(a, b, borrow) ==
    IF a = <<>> THEN <<>>
    ELSE LET db == IF b = <<>> THEN 0 ELSE DigitVal(b[Len(b)])
             d  == DigitVal(a[Len(a)]) - db - borrow
             bb == IF b = <<>> THEN <<>> ELSE SubSeq(b, 1, Len(b) - 1)
         IN  Append(minus(SubSeq(a, 1, Len(a) - 1), bb, IF d < 0 THEN 1 ELSE 0),
                    DigitChars[(IF d < 0 THEN d + 10 ELSE d) + 1])

\* x mod 2^64.
RECURSIVE wrapping(_)
wrapping(x) ==
    IF less(x, TWO_POW_64) THEN x
    ELSE wrapping(normalize(minus(x, TWO_POW_64, 0)))

\* str::parse::<u32>() on a string of digits: the value, or None on overflow.
parse_u32(ds) == IF less(U32_MAX, normalize(ds)) THEN None ELSE Some(normalize(ds))

\* str::parse::<u64>() on a string of digits.
parse_u64(ds) == IF less(normalize(ds), TWO_POW_64) THEN Some(normalize(ds)) ELSE None

\* The factor of `value * 60`, `value * 3600`.
unit_factor(unit) ==
    CASE unit = <<"m">> -> 60
      [] unit = <<"h">> -> 3600
      [] OTHER -> 1

\* Duration::from_millis for "ms", Duration::from_secs for the others.
unit_scale(unit) == IF unit = <<"m", "s">> THEN "millis" ELSE "secs"

Pending == [kind |-> "pending", count |-> <<>>, window |-> <<>>]
ParseErr == [kind |-> "Err", count |-> <<>>, window |-> <<>>]
ParsePanic == [kind |-> "panic", count |-> <<>>, window |-> <<>>]

\* Threshold::parse(s).  value * 60 and value * 3600 are u64 products: on
\* overflow a build with overflow checks panics and one without wraps.
Threshold_parse(s, overflow_checks) ==
    IF captures(s) = None THEN ParseErr
    ELSE LET caps == unwrap(captures(s))
             count == parse_u32(caps.count)
             value == parse_u64(caps.value)
             product == normalize(times(unwrap(value), unit_factor(caps.unit), 0))
         IN  IF count = None THEN ParseErr
             ELSE IF value = None THEN ParseErr
             ELSE IF ~less(product, TWO_POW_64) /\ overflow_checks THEN ParsePanic
             ELSE [ kind |-> "Ok", count |-> unwrap(count),
                    window |-> [scale |-> unit_scale(caps.unit),
                                amount |-> wrapping(product)] ]

\* A threshold string of the configuration is handed to Threshold::parse.
StartParse(parts) ==
    [ parts |-> parts, s |-> Spell(parts), result |-> Pending,
      serialized |-> None, reparsed |-> Pending ]

\* Threshold::parse returns.
ThresholdParse(overflow_checks) ==
    /\ parsed.result = Pending
    /\ parsed' = [parsed EXCEPT !.result = Threshold_parse(parsed.s, overflow_checks)]
    /\ UNCHANGED <<stream, health, resource, startup>>
    /\ UNCHANGED adjunctVars
    /\ UNCHANGED <<dispatcherVars, pipelineVars, watcherVars>>

ParseInit ==
    /\ ManagerNew
    /\ PipelineOff
    /\ WatcherOff
    /\ StreamOff /\ HealthOff /\ ResourceOff /\ StartupOff /\ AdjunctOff
    /\ \E parts \in ThresholdParts : parsed = StartParse(parts)

\* The digits of a \div k for a numeral a and small k, by long division.
RECURSIVE quotient(_, _, _)
quotient(a, k, rem) ==
    IF a = <<>> THEN <<>>
    ELSE LET cur == rem * 10 + DigitVal(Head(a))
         IN  <<DigitChars[(cur \div k) + 1]>> \o quotient(Tail(a), k, cur % k)

\* Duration::as_millis and Duration::as_secs of a window.
as_millis(window) ==
    IF window.scale = "millis" THEN window.amount
    ELSE normalize(times(window.amount, 1000, 0))
as_secs(window) ==
    IF window.scale = "millis" THEN normalize(quotient(window.amount, 1000, 0))
    ELSE window.amount

\* impl Serialize for Threshold: the string handed to serialize_str.
Threshold_serialize(t) ==
    LET secs == as_secs(t.window)
        millis == as_millis(t.window)
    IN  t.count \o <<" ", "i", "n", " ">> \o
        ( IF less(millis, numeral(1000)) THEN millis \o <<"m", "s">>
          ELSE IF less(secs, numeral(60)) THEN secs \o <<"s">>
          ELSE IF less(secs, numeral(3600))
               THEN normalize(quotient(secs, 60, 0)) \o <<"m">>
          ELSE normalize(quotient(secs, 3600, 0)) \o <<"h">> )

\* The threshold Threshold::parse returned is serialized.
ThresholdSerialize ==
    /\ parsed.result.kind = "Ok"
    /\ parsed.serialized = None
    /\ parsed' = [parsed EXCEPT !.serialized = Some(Threshold_serialize(parsed.result))]
    /\ UNCHANGED <<stream, health, resource, startup>>
    /\ UNCHANGED adjunctVars
    /\ UNCHANGED <<dispatcherVars, pipelineVars, watcherVars>>

\* The serialized string is deserialized: Threshold::parse on it.
ThresholdReparse(overflow_checks) ==
    /\ parsed.serialized # None
    /\ parsed.reparsed = Pending
    /\ parsed' = [parsed EXCEPT
          !.reparsed = Threshold_parse(unwrap(parsed.serialized), overflow_checks)]
    /\ UNCHANGED <<stream, health, resource, startup>>
    /\ UNCHANGED adjunctVars
    /\ UNCHANGED <<dispatcherVars, pipelineVars, watcherVars>>

ParseNext ==
    \/ \E overflow_checks \in BOOLEAN : ThresholdParse(overflow_checks)
    \/ ThresholdSerialize
    \/ \E overflow_checks \in BOOLEAN : ThresholdReparse(overflow_checks)

ParseSpec == ParseInit /\ [][ParseNext]_vars

\* ---------------------------------------- resource sampling: ResourceMonitor

\* The run time the resource monitor is followed for, in sampling intervals.
MaxIntervals == 7

\* The number of mounted filesystems of a sampling round.
MaxDisks == 2

ResourceKeys == {"cpu_threshold", "memory_threshold", "disk_threshold"}

\* ResourceConfig.interval, seconds.
Intervals == {1, 2}

\* cpu_percent, memory_percent, disk_percent: Option<f32>, in whole percent.
PercentThresholds == {None, Some(80)}

ResourceConfigs ==
    [ interval : Intervals, cpu_percent : PercentThresholds,
      memory_percent : PercentThresholds, disk_percent : PercentThresholds ]

\* global_cpu_usage() and the memory percentage: at the threshold and above it.
PercentSamples == {80, 81}

\* total_space() and available_space() of a mounted filesystem.
DiskSamples ==
    { [total_space |-> 0, available_space |-> 0],
      [total_space |-> 100, available_space |-> 20],
      [total_space |-> 100, available_space |-> 19] }

\* ((total_space - available_space) / total_space) * 100
used_percent(disk) == ((disk.total_space - disk.available_space) * 100) \div disk.total_space

\* The comparison, had it been >=.
exceeds_OrEqual(value, threshold) == value >= threshold

\* cpu_usage > threshold, memory_percent > threshold, used_percent > threshold
exceeds(value, threshold) == value > threshold

\* self.config.interval * 6
resource_cooldown(interval) == interval * 6

\* ResourceMonitor::start before the first tick of its interval.
StartResourceMonitor(cfg) ==
    [ config |-> cfg, pc |-> "wait", next_tick |-> 0, idx |-> 0,
      sample |-> None, last |-> None, disk_sent |-> 0, disk_first |-> NoInstant ]

\* Time passes, a sampling interval at a time: while the monitor waits for its
\* tick, and while a handler's send is awaited.
ResourceElapse ==
    /\ now + from_secs(resource.config.interval)
          <= from_secs(resource.config.interval) * MaxIntervals
    /\ now' = now + from_secs(resource.config.interval)
    /\ UNCHANGED <<handlers, lastRegistered, cooldowns, lockHolder, pc, call, crossed, started>>
    /\ UNCHANGED <<pipelineVars, watcherVars, serviceVars>>

\* interval.tick() returns (at once when the round before overran) and
\* sys.refresh_all() runs; the next tick is due one period after this one.
ResourceTick ==
    /\ resource.pc = "wait"
    /\ now >= resource.next_tick
    /\ resource' = [resource EXCEPT
          !.pc = "cpu", !.next_tick = @ + from_secs(resource.config.interval),
          !.sample = None, !.last = None, !.disk_sent = 0, !.disk_first = NoInstant]
    /\ UNCHANGED <<stream, health, startup, parsed>>
    /\ UNCHANGED adjunctVars
    /\ UNCHANGED <<dispatcherVars, pipelineVars, watcherVars>>

\* The send_alert_multi call of a check: check_cooldown under the key, and if
\* it passes the sends to the handlers are awaited (sending), else the call
\* returns at once (after).
ResourceAlert(rule_name, sample, sending, after, idx) ==
    LET cooldown_secs == resource_cooldown(resource.config.interval)
        gate == check_cooldown(cooldowns, rule_name, cooldown_secs, now)
        disk == rule_name = "disk_threshold" /\ gate.passed
    IN  /\ cooldowns' = gate.map
        /\ resource' = [resource EXCEPT
              !.pc = IF gate.passed THEN sending ELSE after,
              !.idx = idx,
              !.sample = Some(sample),
              !.last = Some([rule_name |-> rule_name, cooldown_secs |-> cooldown_secs,
                             passed |-> gate.passed]),
              !.disk_sent = IF disk THEN @ + 1 ELSE @,
              !.disk_first = IF disk /\ resource.disk_sent = 0 THEN now ELSE @]

\* A check that makes no call.
ResourceQuiet(sample, after, idx) ==
    /\ resource' = [resource EXCEPT !.pc = after, !.idx = idx, !.sample = sample,
                                    !.last = None]
    /\ UNCHANGED cooldowns

\* check_cpu
CheckCpu(cpu_usage) ==
    /\ resource.pc = "cpu"
    /\ IF resource.config.cpu_percent = None
       THEN ResourceQuiet(None, "memory", 0)
       ELSE IF exceeds(cpu_usage, unwrap(resource.config.cpu_percent))
            THEN ResourceAlert("cpu_threshold", cpu_usage, "cpu_send", "memory", 0)
            ELSE ResourceQuiet(Some(cpu_usage), "memory", 0)
    /\ UNCHANGED <<handlers, lastRegistered, lockHolder, now, pc, call, crossed, started>>
    /\ UNCHANGED <<stream, health, startup, parsed>>
    /\ UNCHANGED adjunctVars
    /\ UNCHANGED <<pipelineVars, watcherVars>>

\* check_memory
CheckMemory(memory_percent) ==
    /\ resource.pc = "memory"
    /\ IF resource.config.memory_percent = None
       THEN ResourceQuiet(None, "disk", 0)
       ELSE IF exceeds(memory_percent, unwrap(resource.config.memory_percent))
            THEN ResourceAlert("memory_threshold", memory_percent, "memory_send", "disk", 0)
            ELSE ResourceQuiet(Some(memory_percent), "disk", 0)
    /\ UNCHANGED <<handlers, lastRegistered, lockHolder, now, pc, call, crossed, started>>
    /\ UNCHANGED <<stream, health, startup, parsed>>
    /\ UNCHANGED adjunctVars
    /\ UNCHANGED <<pipelineVars, watcherVars>>

\* check_disk, one round of its loop over the mounted filesystems.
CheckDisk(disk) ==
    /\ resource.pc = "disk"
    /\ resource.config.disk_percent # None
    /\ resource.idx < MaxDisks
    /\ IF disk.total_space = 0
       THEN ResourceQuiet(Some(disk), "disk", resource.idx + 1)
       ELSE IF exceeds(used_percent(disk), unwrap(resource.config.disk_percent))
            THEN ResourceAlert("disk_threshold", disk, "disk_send", "disk",
                               resource.idx + 1)
            ELSE ResourceQuiet(Some(disk), "disk", resource.idx + 1)
    /\ UNCHANGED <<handlers, lastRegistered, lockHolder, now, pc, call, crossed, started>>
    /\ UNCHANGED <<stream, health, startup, parsed>>
    /\ UNCHANGED adjunctVars
    /\ UNCHANGED <<pipelineVars, watcherVars>>

\* check_disk returns: no disk threshold, or every filesystem was looked at.
DisksDone ==
    /\ resource.pc = "disk"
    /\ resource.config.disk_percent = None \/ resource.idx = MaxDisks
    /\ resource' = [resource EXCEPT !.pc = "wait"]
    /\ UNCHANGED <<stream, health, startup, parsed>>
    /\ UNCHANGED adjunctVars
    /\ UNCHANGED <<dispatcherVars, pipelineVars, watcherVars>>

\* The check that follows the one whose call is awaited.
AfterSend(at) ==
    CASE at = "cpu_send" -> "memory"
      [] at = "memory_send" -> "disk"
      [] at = "disk_send" -> "disk"

\* send_alert_multi returns to the check (an error is logged), which returns
\* or, in check_disk, goes on with the next filesystem.
ResourceSendsReturn ==
    /\ resource.pc \in {"cpu_send", "memory_send", "disk_send"}
    /\ resource' = [resource EXCEPT !.pc = AfterSend(resource.pc)]
    /\ UNCHANGED <<stream, health, startup, parsed>>
    /\ UNCHANGED adjunctVars
    /\ UNCHANGED <<dispatcherVars, pipelineVars, watcherVars>>

\* The resource monitor alone, the cooldown map holding its three keys.
ResourceInit ==
    /\ handlers = [n \in AlertNames |-> NoHandler]
    /\ cooldowns = [k \in ResourceKeys |-> NoInstant]
    /\ lockHolder = NoTask
    /\ now = 0
    /\ pc = [t \in Tasks |-> "idle"]
    /\ call = [t \in Tasks |-> IdleCall]
    /\ crossed = [r \in RuleNames |-> NoInstant]
    /\ started = 0
    /\ lastRegistered = [n \in AlertNames |-> NoHandler]
    /\ PipelineOff
    /\ WatcherOff
    /\ StreamOff /\ HealthOff /\ StartupOff /\ ParsedOff /\ AdjunctOff
    /\ \E cfg \in ResourceConfigs : resource = StartResourceMonitor(cfg)

ResourceNext ==
    \/ ResourceElapse
    \/ ResourceTick
    \/ \E cpu_usage \in PercentSamples : CheckCpu(cpu_usage)
    \/ \E memory_percent \in PercentSamples : CheckMemory(memory_percent)
    \/ \E disk \in DiskSamples : CheckDisk(disk)
    \/ DisksDone
    \/ ResourceSendsReturn

ResourceSpec == ResourceInit /\ [][ResourceNext]_vars

\* ------------------------------- two health checks: HealthMonitor::start

\* The largest number of polls of the second check.
MaxPeerPolls == 2

\* HealthMonitor::start spawns one run_health_check_with_retry task per check;
\* each call of run_health_check has its own consecutive_failures, is_down and
\* failure_history, and all share the AlertManager.  Names need not differ:
\* the second check carries the name of the first, and so the same cooldown key.
PeerChecks ==
    [name : CheckNames, missed_threshold : {1}, threshold : {None}]

\* One round of the loop of a check with locals h, perform_check returning
\* Ok(()), the cooldown map being map and the clock t: the locals and the map
\* afterwards.
poll_succeeds(h, map, t) ==
    LET gate == check_cooldown(map, h.check.name, 0, t)
        alert == [ kind |-> "UP", poll |-> Len(h.polls) + 1, cooldown_secs |-> 0,
                   passed |-> gate.passed ]
    IN  [ h |-> [h EXCEPT
                   !.polls = Append(@, [ok |-> TRUE, at |-> t]),
                   !.alerts = IF h.is_down THEN Append(@, alert) ELSE @,
                   !.is_down = FALSE,
                   !.consecutive_failures = 0,
                   !.failure_history = IF h.check.threshold # None THEN <<>> ELSE @],
          map |-> IF h.is_down THEN gate.map ELSE map ]

\* The same with perform_check returning Err.
poll_fails(h, map, t) ==
    LET consecutive_failures == h.consecutive_failures + 1
        windowed == h.check.threshold # None
        cft == check_failure_threshold(h.failure_history, unwrap(h.check.threshold), t)
        should_alert ==
            IF windowed THEN cft.should_alert
            ELSE consecutive_reached(consecutive_failures, h.check.missed_threshold)
        alerting == should_alert /\ ~h.is_down
        gate == check_cooldown(map, h.check.name, 0, t)
        alert == [ kind |-> "DOWN", poll |-> Len(h.polls) + 1, cooldown_secs |-> 0,
                   passed |-> gate.passed ]
    IN  [ h |-> [h EXCEPT
                   !.polls = Append(@, [ok |-> FALSE, at |-> t]),
                   !.consecutive_failures = consecutive_failures,
                   !.failure_history = IF windowed THEN cft.history ELSE @,
                   !.is_down = IF alerting THEN TRUE ELSE @,
                   !.alerts = IF alerting THEN Append(@, alert) ELSE @],
          map |-> IF alerting THEN gate.map ELSE map ]

\* One round of the second check's loop.  Its log of polls keeps the outcomes
\* only, not the instants.
PeerPoll(ok) ==
    LET after == IF ok THEN poll_succeeds(peer, cooldowns, now)
                 ELSE poll_fails(peer, cooldowns, now)
    IN  /\ Len(peer.polls) < MaxPeerPolls
        /\ peer' = [after.h EXCEPT !.polls = Append(peer.polls, [ok |-> ok, at |-> 0])]
        /\ cooldowns' = after.map
        /\ UNCHANGED <<handlers, lastRegistered, lockHolder, now, pc, call, crossed, started>>
        /\ UNCHANGED <<stream, health, resource, startup, parsed, request, supervisor>>
        /\ UNCHANGED <<pipelineVars, watcherVars>>

\* Two checks, the first in either mode.
HealthPairInit ==
    /\ ManagerNew
    /\ PipelineOff
    /\ WatcherOff
    /\ StreamOff /\ ResourceOff /\ StartupOff /\ ParsedOff
    /\ request = <<>> /\ supervisor = <<>>
    /\ \E check \in HealthChecks : health = StartHealthCheck(check)
    /\ \E check \in PeerChecks : peer = StartHealthCheck(check)

HealthPairNext ==
    \/ Tick
    \/ PollSucceeds
    \/ PollFails
    \/ \E ok \in BOOLEAN : PeerPoll(ok)

HealthPairSpec == HealthPairInit /\ [][HealthPairNext]_vars

\* ------------------------------- HTTP alert handlers: AlertHandler::send

\* The handlers that POST to an endpoint.
HttpHandlers ==
    {"slack", "discord", "telegram", "webhook", "pagerduty", "ntfy", "sendgrid"}

\* What comes back from the POST: a transport error (client.send() is Err), or
\* the final response with its status code.
Statuses == {200, 201, 204, 304, 400, 404, 500, 503}
Transport == [responded |-> FALSE, status |-> 0]
Answers == {Transport} \cup {[responded |-> TRUE, status |-> s] : s \in Statuses}

\* StatusCode::is_success: 200..=299.
is_success(status) == 200 <= status /\ status < 300

\* Response::error_for_status: Err for client and server errors (400..=599),
\* the response itself for every other status.
error_for_status(status) == IF 400 <= status /\ status < 600 THEN "Err" ELSE "Ok"

\* send of each handler, given what came back.  Every handler returns the
\* transport error with `?`.  Slack and Webhook then return Ok(()); Discord,
\* Telegram, PagerDuty and Ntfy go through error_for_status()?; SendGrid tests
\* status().is_success().
send(handler, answer) ==
    IF answer = Transport THEN "Err"
    ELSE CASE handler \in {"slack", "webhook"} -> "Ok"
           [] handler \in {"discord", "telegram", "pagerduty", "ntfy"} ->
                  error_for_status(answer.status)
           [] OTHER -> IF is_success(answer.status) THEN "Ok" ELSE "Err"

\* handler.send(identity, rule_name, message) is called: the POST is on its way.
StartSend(handler) ==
    [ handler |-> handler, pc |-> "posting", answer |-> None, result |-> "pending" ]

\* client.post(..).send().await completes.
EndpointAnswers(answer) ==
    /\ request.pc = "posting"
    /\ request' = [request EXCEPT !.pc = "answered", !.answer = Some(answer)]
    /\ UNCHANGED <<stream, health, resource, startup, parsed, peer, supervisor>>
    /\ UNCHANGED <<dispatcherVars, pipelineVars, watcherVars>>

\* send returns.
SendReturns ==
    /\ request.pc = "answered"
    /\ request' = [request EXCEPT
          !.pc = "returned", !.result = send(request.handler, unwrap(request.answer))]
    /\ UNCHANGED <<stream, health, resource, startup, parsed, peer, supervisor>>
    /\ UNCHANGED <<dispatcherVars, pipelineVars, watcherVars>>

SendInit ==
    /\ ManagerNew
    /\ PipelineOff
    /\ WatcherOff
    /\ StreamOff /\ HealthOff /\ ResourceOff /\ StartupOff /\ ParsedOff
    /\ peer = <<>> /\ supervisor = <<>>
    /\ \E handler \in HttpHandlers : request = StartSend(handler)

SendNext ==
    \/ \E answer \in Answers : EndpointAnswers(answer)
    \/ SendReturns

SendSpec == SendInit /\ [][SendNext]_vars

\* --------------------------------- the supervisor: handle_watch, select_all

\* The root tasks handle_watch spawns: one per file, container and stream (one
\* of each here), and the resource monitor.
WatcherTasks == {"file", "container", "stream"}
RootTasks == WatcherTasks \cup {"resource"}

\* ResourcesConfig.interval: u64, not validated; 0 is accepted by the parser.
SupervisedIntervals == {0, 1}

\* handle_watch has spawned its tasks (at least one, or it has bailed out with
\* "Nothing to monitor") and awaits select_all(tasks).
StartSupervisor(spawned, interval) ==
    [ tasks |-> [k \in RootTasks |-> IF k \in spawned THEN "running" ELSE "absent"],
      interval |-> interval, pc |-> "waiting", result |-> "none" ]

\* An attempt of a watcher returns Err (or Ok): watch_file, watch_container and
\* watch_stream log it inside their loop and sleep; the task goes on.
AttemptFails(k) ==
    /\ supervisor.pc = "waiting"
    /\ k \in WatcherTasks
    /\ supervisor.tasks[k] = "running"
    /\ supervisor' = [supervisor EXCEPT !.tasks[k] = "retrying"]
    /\ UNCHANGED <<stream, health, resource, startup, parsed, peer, request>>
    /\ UNCHANGED <<dispatcherVars, pipelineVars, watcherVars>>

\* The sleep of the retry loop is over: the next attempt starts.
NextAttempt(k) ==
    /\ supervisor.pc = "waiting"
    /\ supervisor.tasks[k] = "retrying"
    /\ supervisor' = [supervisor EXCEPT !.tasks[k] = "running"]
    /\ UNCHANGED <<stream, health, resource, startup, parsed, peer, request>>
    /\ UNCHANGED <<dispatcherVars, pipelineVars, watcherVars>>

\* ResourceMonitor::start with interval 0: tokio's interval() panics on a zero
\* period, and the task ends with a JoinError.
ResourceTaskPanics ==
    /\ supervisor.pc = "waiting"
    /\ supervisor.tasks["resource"] = "running"
    /\ supervisor.interval = 0
    /\ supervisor' = [supervisor EXCEPT !.tasks["resource"] = "panicked"]
    /\ UNCHANGED <<stream, health, resource, startup, parsed, peer, request>>
    /\ UNCHANGED <<dispatcherVars, pipelineVars, watcherVars>>

\* Variant: the wait ends as soon as a watcher's attempt has failed.
SelectAllReturns_OnAttemptError ==
    /\ supervisor.pc = "waiting"
    /\ \E k \in RootTasks : supervisor.tasks[k] \in {"panicked", "retrying"}
    /\ supervisor' = [supervisor EXCEPT !.pc = "returned", !.result = "Err"]
    /\ UNCHANGED <<stream, health, resource, startup, parsed, peer, request>>
    /\ UNCHANGED <<dispatcherVars, pipelineVars, watcherVars>>

\* select_all(tasks).await yields the first task that completed; `result?`
\* returns its JoinError from handle_watch, and main returns it.
SelectAllReturns ==
    /\ supervisor.pc = "waiting"
    /\ \E k \in RootTasks : supervisor.tasks[k] = "panicked"
    /\ supervisor' = [supervisor EXCEPT !.pc = "returned", !.result = "Err"]
    /\ UNCHANGED <<stream, health, resource, startup, parsed, peer, request>>
    /\ UNCHANGED <<dispatcherVars, pipelineVars, watcherVars>>

\* SIGINT arrives.  handle_watch installs no handler, so the default
\* disposition ends the process without handle_watch returning.
InterruptArrives ==
    /\ supervisor.pc = "waiting"
    /\ supervisor' = [supervisor EXCEPT !.pc = "interrupted"]
    /\ UNCHANGED <<stream, health, resource, startup, parsed, peer, request>>
    /\ UNCHANGED <<dispatcherVars, pipelineVars, watcherVars>>

SupervisorInit ==
    /\ ManagerNew
    /\ PipelineOff
    /\ WatcherOff
    /\ StreamOff /\ HealthOff /\ ResourceOff /\ StartupOff /\ ParsedOff
    /\ peer = <<>> /\ request = <<>>
    /\ \E spawned \in (SUBSET RootTasks) \ {{}}, interval \in SupervisedIntervals :
          supervisor = StartSupervisor(spawned, interval)

SupervisorNext ==
    \/ \E k \in WatcherTasks : AttemptFails(k)
    \/ \E k \in WatcherTasks : NextAttempt(k)
    \/ ResourceTaskPanics
    \/ SelectAllReturns
    \/ InterruptArrives

SupervisorSpec == SupervisorInit /\ [][SupervisorNext]_vars

\* ------------------------------------------------------------------ claims

\* Steps of the gate, as transitions of one task.
Decides(t) == pc[t] = "check" /\ pc'[t] # "check"
Suppresses(t) == pc[t] = "check" /\ pc'[t] = "idle"
Crosses(t) == pc[t] = "insert" /\ pc'[t] = "fanout"

\* The names a call's sends went to, in order.
SentNames(c) == [i \in 1..Len(c.sends) |-> c.sends[i].name]

AllRegistered(names) == \A i \in 1..Len(names) : Registered(names[i])

\* The targets listed before the first unregistered one (all, if none is).
FoundPrefix(names) ==
    LET missing == {i \in 1..Len(names) : ~Registered(names[i])}
        stop == IF missing = {} THEN Len(names) + 1
                ELSE CHOOSE i \in missing : \A j \in missing : i <= j
    IN  SubSeq(names, 1, stop - 1)

\* C1: whenever a dispatch for rule R called with cooldown C > 0 crosses the gate
\* (send_alert or send_alert_multi), the previous gate crossing for R, if any,
\* lies at least C seconds back: no two crossings for R fall in a window
\* shorter than C.
C1_OneCrossingPerCooldown ==
    [][\A t \in Tasks :
          (Crosses(t) /\ call[t].cooldown_secs > 0
                      /\ crossed[call[t].rule_name] # NoInstant)
          => crossed'[call[t].rule_name] - crossed[call[t].rule_name]
                >= call[t].cooldown_secs * TicksPerSec]_vars

\* Two dispatches of one rule, both with cooldown 1 s, both through the gate at
\* different instants.
C1_Witness ==
    \E t, u \in Tasks :
        /\ t # u /\ call[t].passed /\ call[u].passed
        /\ call[t].rule_name = call[u].rule_name
        /\ call[t].cooldown_secs = 1 /\ call[u].cooldown_secs = 1
        /\ call[t].stamp > call[u].stamp

C3_ZeroCooldownPasses ==
    \A t \in Tasks :
        (Returned(t) /\ call[t].cooldown_secs = 0) =>
            /\ call[t].passed
            /\ AllRegistered(call[t].alert_names)
                  => SentNames(call[t]) = call[t].alert_names

\* A cooldown-0 dispatch passed at the very instant another dispatch of the same
\* rule had written its timestamp.
C3_Witness ==
    \E t, u \in Tasks :
        /\ t # u /\ Returned(t) /\ call[t].cooldown_secs = 0 /\ call[t].passed
        /\ call[u].passed /\ call[u].rule_name = call[t].rule_name
        /\ call[u].cooldown_secs = 1
        /\ call[u].stamp = call[t].stamp
        /\ Len(call[t].sends) = 2

\* C4: a dispatch for R with cooldown C is suppressed at the gate if and only if
\* some dispatch for R passed the gate before and the last one to pass did so
\* less than C seconds ago; the first dispatch for R, and any made C or more
\* after the last passing one, go through.
C4_SuppressedIffWithinCooldown ==
    [][\A t \in Tasks :
          Decides(t) =>
             ( Suppresses(t) <=>
                 ( /\ crossed[call[t].rule_name] # NoInstant
                   /\ now - crossed[call[t].rule_name]
                         < call[t].cooldown_secs * TicksPerSec ) )]_vars

\* Cooldown 1 s, three dispatches of one rule: one was suppressed, and at
\* t = 1.5 s one passed again.
C4_Witness ==
    \E t, u \in Tasks :
        /\ t # u /\ started = 3 /\ now = 3
        /\ Returned(u) /\ ~call[u].passed /\ call[u].cooldown_secs = 1
        /\ call[t].passed /\ call[t].stamp = 3 /\ call[t].cooldown_secs = 1
        /\ call[t].rule_name = call[u].rule_name

C6_SuppressedLeavesMap ==
    [][/\ \A r \in RuleNames :
             cooldowns[r] # NoInstant =>
                cooldowns'[r] # NoInstant /\ cooldowns'[r] >= cooldowns[r]
       /\ \A r \in RuleNames :
             cooldowns'[r] # cooldowns[r] =>
                \E t \in Tasks : Crosses(t) /\ call[t].rule_name = r
       /\ \A t \in Tasks :
             Suppresses(t) =>
                /\ cooldowns' = cooldowns
                /\ call'[t].sends = <<>>
                /\ call'[t].result = "ok"]_vars

\* A dispatch was suppressed later than the entry of its rule was written, and
\* the entry still holds the old time.
C6_Witness ==
    \E t \in Tasks :
        /\ Returned(t) /\ ~call[t].passed /\ call[t].sends = <<>>
        /\ cooldowns[call[t].rule_name] = 0
        /\ now = 1 /\ started = 2

\* C7: a multi-target dispatch that passes the gate and whose targets are all
\* registered invokes send on every target once, in list order, on the handler
\* registered under that name, whatever the earlier sends returned.
C7_EveryTargetSentInOrder ==
    \A t \in Tasks :
        ( /\ Returned(t) /\ call[t].kind = "multi" /\ call[t].passed
          /\ AllRegistered(call[t].alert_names) )
        => /\ SentNames(call[t]) = call[t].alert_names
           /\ \A i \in 1..Len(call[t].sends) :
                 call[t].sends[i].handler = handlers[call[t].alert_names[i]]

\* Three targets, every send failed, and all three were sent to.
C7_Witness ==
    \E t \in Tasks :
        /\ Returned(t) /\ call[t].kind = "multi" /\ call[t].passed
        /\ Len(call[t].alert_names) = 3
        /\ call[t].send_errs = 3
        /\ SentNames(call[t]) = call[t].alert_names

\* C8 as stated: with every target registered, a dispatch that passed the gate
\* returns success even when a handler's send failed, for send_alert and for
\* send_alert_multi alike.
C8_Original ==
    \A t \in Tasks :
        ( /\ Returned(t) /\ call[t].passed
          /\ AllRegistered(call[t].alert_names) )
        => call[t].result = "ok"

\* C8 amended: with every target registered, send_alert_multi returns success
\* whatever its handlers' sends returned; send_alert returns what its one
\* handler's send returned, an error when that send failed.
C8_MultiResultUnaffected ==
    \A t \in Tasks :
        ( /\ Returned(t) /\ call[t].passed
          /\ AllRegistered(call[t].alert_names) )
        => /\ call[t].kind = "multi" => call[t].result = "ok"
           /\ call[t].kind = "single" =>
                 (call[t].result = "ok" <=> call[t].send_errs = 0)

\* A two-target dispatch in which both sends failed returned success.
C8_Witness ==
    \E t \in Tasks :
        /\ Returned(t) /\ call[t].kind = "multi" /\ call[t].passed
        /\ Len(call[t].alert_names) = 2
        /\ call[t].send_errs = 2 /\ call[t].result = "ok"

\* One name of the list is not registered.
OneMissing(names) ==
    Cardinality({i \in 1..Len(names) : ~Registered(names[i])}) = 1

\* C9 as stated: in a dispatch with two or more targets of which one is not
\* registered, every registered target, before and after the missing one, is
\* sent to.
C9_Original ==
    \A t \in Tasks :
        ( /\ Returned(t) /\ call[t].kind = "multi" /\ call[t].passed
          /\ Len(call[t].alert_names) >= 2
          /\ OneMissing(call[t].alert_names) )
        => SentNames(call[t]) = SelectSeq(call[t].alert_names, Registered)

\* C9 amended: in a dispatch with two or more targets of which one is not
\* registered, the targets listed before the missing one are sent to, in order;
\* at the missing one the dispatch stops with the not-found error, and the
\* targets listed after it are not sent to.
C9_StopsAtMissingTarget ==
    \A t \in Tasks :
        ( /\ Returned(t) /\ call[t].kind = "multi" /\ call[t].passed
          /\ Len(call[t].alert_names) >= 2
          /\ OneMissing(call[t].alert_names) )
        => /\ SentNames(call[t]) = FoundPrefix(call[t].alert_names)
           /\ call[t].result = "err"

\* Targets a1, a2, a1 with a2 not registered: a1 was sent to once, not twice.
C9_Witness ==
    \E t \in Tasks :
        /\ Returned(t) /\ call[t].kind = "multi" /\ call[t].passed
        /\ call[t].alert_names = <<"a1", "a2", "a1">>
        /\ Registered("a1") /\ ~Registered("a2")
        /\ SentNames(call[t]) = <<"a1">>
        /\ call[t].result = "err"

\* C10: a dispatch that passed the gate returns an error when a target name is
\* not registered: send_alert for its one name, send_alert_multi for any name
\* of its list.
C10_NotFoundIsAnError ==
    \A t \in Tasks :
        ( /\ Returned(t) /\ call[t].passed
          /\ ~AllRegistered(call[t].alert_names) )
        => call[t].result = "err"

\* send_alert to a name that is not registered returned an error without a send.
C10_Witness ==
    \E t \in Tasks :
        /\ Returned(t) /\ call[t].kind = "single" /\ call[t].passed
        /\ ~Registered(call[t].alert_names[1])
        /\ call[t].result = "err" /\ call[t].sends = <<>>

\* ---- the rule pipeline

\* A configured rule's matcher on a line: substring containment for a text
\* rule, regex search for a pattern rule.
RuleMatches(rule, line) ==
    IF rule.text # None
    THEN contains(line, unwrap(rule.text))
    ELSE is_match(unwrap(rule.pattern), line)

\* The elements of the list a sources filter holds for a kind of source.
Listed(sources, kind) ==
    LET list == CASE kind = "File" -> sources.files
                  [] kind = "Container" -> sources.containers
                  [] kind = "Stream" -> sources.streams
    IN  {list[i] : i \in 1..Len(list)}

\* A line has gone through LogMonitor::process_line, which has returned.
LogLineDone ==
    proc.monitor = "log" /\ proc.status = "idle" /\ ~proc.dropped

\* This step calls send_alert_multi for the i-th rule.
Fires(i) ==
    /\ Len(proc'.dispatched) = Len(proc.dispatched) + 1
    /\ proc'.dispatched[Len(proc'.dispatched)].rule_name = config[i].name

\* The number of instants of a log that lie less than window seconds back.
Recent(log, window) ==
    Cardinality({k \in 1..Len(log) : now - log[k] < window * TicksPerSec})

\* C11: when a line matches a rule that has a threshold (N, W) and applies to
\* the line's source, the rule is dispatched in that step if and only if at
\* least N of its matches, the current one included and those consumed by an
\* earlier firing left out, fall within the preceding W.
C11_ThresholdGatesDispatch ==
    [][ \A i \in 1..Len(config) :
          ( /\ config[i].threshold # None
            /\ proc.monitor = "log" /\ proc.status = "eval" /\ proc.idx = i
            /\ Rule_applies_to_source(config[i], proc.source)
            /\ RuleMatches(config[i], proc.line) )
          => ( Fires(i) <=>
                 Recent(unconsumed[config[i].name], unwrap(config[i].threshold).window) + 1
                     >= unwrap(config[i].threshold).count ) ]_vars

\* C12: a rule applies to a source exactly if it has no sources filter or the
\* filter's list for the source's kind contains the source (so an empty list
\* admits nothing), and the three implementations all compute this.
C12_SourceScopingAgrees ==
    \A i \in 1..Len(config), source \in SourceTypes :
        LET admitted ==
              \/ config[i].sources = None
              \/ source.name \in Listed(unwrap(config[i].sources), source.kind)
        IN  /\ Rule_applies_to_source(config[i], source) = admitted
            /\ LogMonitor_rule_applies_to_source(LogMonitor_rules[i], source) = admitted
            /\ StreamMonitor_rule_applies_to_source(StreamMonitor_rules[i], source)
                  = admitted

\* A line of container x went through the rules while the first rule's filter
\* listed file x and no container: the first rule's matcher never ran, the
\* second rule's did.
C12_Witness ==
    /\ LogLineDone
    /\ proc.source = [kind |-> "Container", name |-> "x"]
    /\ config[1].sources # None
    /\ unwrap(config[1].sources).files = <<"x">>
    /\ unwrap(config[1].sources).containers = <<>>
    /\ config[2].sources = None
    /\ proc.tried = {"r2"}

\* The dispatch process_line is to make for a rule and a line.
Expected(rule, line) ==
    [ rule_name |-> rule.name, alert_names |-> rule.alert, message |-> line,
      cooldown_secs |-> rule.cooldown ]

\* A dispatch made, without its outcome.
Made(d) ==
    [ rule_name |-> d.rule_name, alert_names |-> d.alert_names,
      message |-> d.message, cooldown_secs |-> d.cooldown_secs ]

\* The rules without threshold that apply to the source and match the line,
\* in configuration order.
Hits(line, source) ==
    LET hit(rule) == /\ rule.threshold = None
                     /\ Rule_applies_to_source(rule, source)
                     /\ RuleMatches(rule, line)
    IN  SelectSeq(config, hit)

\* The dispatches made for rules without threshold, in the order made.
PlainDispatches ==
    LET plain(d) == \E i \in 1..Len(config) :
                        config[i].name = d.rule_name /\ config[i].threshold = None
    IN  SelectSeq(proc.dispatched, plain)

\* C13: when LogMonitor::process_line has returned, the dispatches it made for
\* rules without threshold are, in configuration order, one for each rule that
\* applies to the source and matches the line, each with the rule's alert list,
\* name and cooldown and the line as message, whatever the dispatches returned.
C13_EachMatchingRuleDispatchedInOrder ==
    LogLineDone =>
        LET hits == Hits(proc.line, proc.source) IN
            /\ Len(PlainDispatches) = Len(hits)
            /\ \A k \in 1..Len(hits) :
                  Made(PlainDispatches[k]) = Expected(hits[k], proc.line)

\* A line matched both rules; the dispatch of the first returned an error and
\* the second was dispatched after it.
C13_Witness ==
    /\ LogLineDone
    /\ config[1].threshold = None
    /\ Len(proc.dispatched) = 2
    /\ proc.dispatched[1].rule_name = "r1" /\ proc.dispatched[1].result = "err"
    /\ proc.dispatched[2].rule_name = "r2" /\ proc.dispatched[2].result = "ok"

\* C14: a line longer than MAX_LINE_LENGTH bytes reaches no matcher and causes
\* no dispatch, whatever its source; a line of at most MAX_LINE_LENGTH bytes is
\* not dropped.
C14_LongLinesNeverMatched ==
    proc.monitor # "none" =>
        /\ len(proc.line) > MAX_LINE_LENGTH =>
              (proc.tried = {} /\ proc.dispatched = <<>>)
        /\ len(proc.line) <= MAX_LINE_LENGTH => ~proc.dropped

\* ---- the child-process watchers

\* The sleep that is to follow the k-th of k consecutive failures.
BackoffDelay(k) == IF 2 ^ (k - 1) < MAX_RETRY_DELAY THEN 2 ^ (k - 1) ELSE MAX_RETRY_DELAY

\* C15: the sleep after the k-th consecutive failed attempt lasts
\* 1, 2, 4, 8, 16, 32, 60, 60, ... seconds, and retry_delay always lies
\* between 1 s and 60 s.
C15_BackoffSequence ==
    /\ watcher.pc # "off" =>
          (INITIAL_RETRY_DELAY <= watcher.retry_delay
              /\ watcher.retry_delay <= MAX_RETRY_DELAY)
    /\ (watcher.pc = "sleeping" /\ watcher.fails >= 1) =>
          watcher.slept = BackoffDelay(watcher.fails)

\* C16: a failure of an attempt that had attached (child spawned and being
\* read) is followed by a sleep of INITIAL_RETRY_DELAY, whatever delay earlier
\* failures had accumulated.
C16_AttachResetsDelay ==
    (watcher.pc = "sleeping" /\ watcher.result = "err" /\ watcher.attached) =>
        watcher.slept = INITIAL_RETRY_DELAY

\* A reading loop takes a line that is not valid UTF-8 from its pipe.
ReadsInvalidLine(t) ==
    /\ reader[t].pc = "reading"
    /\ watcher'.attempts = watcher.attempts
    /\ pipe[t] # <<>>
    /\ ~Head(pipe[t]).utf8
    /\ pipe'[t] = Tail(pipe[t])

\* C17: reading a line that is not valid UTF-8 neither kills the child, nor
\* ends the attempt, nor stops the reading loop.
C17_InvalidUtf8Tolerated ==
    [][ \A t \in Tasks :
          ReadsInvalidLine(t) =>
              /\ child' = child
              /\ watcher'.pc = watcher.pc
              /\ reader'[t].pc # "stopped" ]_vars

\* C18: a watcher has at most one live child, and when an attempt has returned
\* the child it spawned is no longer running.
C18_AtMostOneChild ==
    /\ orphans + (IF child = "running" THEN 1 ELSE 0) <= 1
    /\ watcher.pc \in {"returned", "sleeping", "loop"} => child # "running"

\* C19: after the interrupt, when the watcher task has ended, no child of it
\* is alive.
C19_NoChildOutlivesTask ==
    watcher.pc = "ended" => (child # "running" /\ orphans = 0)

\* A reading loop hands a line to process_line.
BeginsLine(t) == reader[t].pc # "processing" /\ reader'[t].pc = "processing"

\* C20: when the processing of a line starts, the processing of every line
\* that arrived before it from the same source (either pipe, for a container)
\* has ended.
C20_ArrivalOrder ==
    [][ \A t \in Tasks :
          BeginsLine(t) =>
              \A k \in 1..(reader'[t].cur - 1) : k \in completed ]_vars

\* ------------------------------------------------------ registry claims

\* The names that were passed to register at least once.
EverRegistered == {n \in AlertNames : lastRegistered[n] # NoHandler}

\* C30: after any sequence of register calls the registry holds, for every
\* name, the handler of the last register call for it and nothing for a name
\* never registered (so n distinct names give n entries), and every send of a
\* dispatch goes to the handler last registered under the target's name.
C30_LastWriterWins ==
    /\ \A n \in AlertNames : handlers[n] = lastRegistered[n]
    /\ Cardinality({n \in AlertNames : Registered(n)}) = Cardinality(EverRegistered)
    /\ \A i \in 1..Len(call[FanTask].sends) :
          call[FanTask].sends[i].handler = lastRegistered[call[FanTask].sends[i].name]

\* Both names registered with different handlers, and a dispatch to both has
\* invoked each one's handler.
C30_Witness ==
    /\ lastRegistered["a1"] = "h2"
    /\ lastRegistered["a2"] = "h1"
    /\ call[FanTask].result = "ok"
    /\ call[FanTask].sends =
          << [name |-> "a1", handler |-> "h2"], [name |-> "a2", handler |-> "h1"] >>

\* ------------------------------------------------------- stream claims

\* An attempt of watch_stream is under way.
InAttempt(s) == s.pc \in {"connecting", "status", "reading"}

\* C21: when an attempt ends, for whatever reason and after any number of
\* earlier failures, watch_stream sleeps the configured reconnect_delay (5 s
\* when none is configured); the sleep is followed by the loop's next attempt,
\* which can always be made; watch_stream never returns.
C21_ReconnectAfterFixedDelay ==
    [][ /\ (InAttempt(stream) /\ ~InAttempt(stream')) =>
              /\ stream'.pc = "sleeping"
              /\ stream'.sleep_secs =
                    (IF stream.stream_config.reconnect_delay = None THEN 5
                     ELSE stream.stream_config.reconnect_delay[1])
        /\ (stream.pc = "sleeping" /\ stream' # stream) => stream'.pc = "loop"
        /\ stream.pc = "loop" => ENABLED StreamConnect
        /\ stream.pc = "sleeping" => ENABLED StreamWakeUp
        /\ stream'.pc \in {"loop", "connecting", "status", "reading", "sleeping"}
      ]_vars

\* A stream without configured delay that ended cleanly after two earlier
\* failures sleeps before its next attempt.
C21_Witness ==
    /\ stream.stream_config.reconnect_delay = None
    /\ stream.pc = "sleeping"
    /\ stream.ending = "stream ended"
    /\ stream.received
    /\ stream.failures = MaxReconnects

\* ------------------------------------------------------- health claims

\* The alerts of kind k dispatched at poll n.
AlertsAt(kind, n) ==
    {i \in 1..Len(health.alerts) :
        health.alerts[i].kind = kind /\ health.alerts[i].poll = n}

\* The check is down when poll n starts: the latest alert dispatched at an
\* earlier poll is a DOWN alert.
DownBefore(n) ==
    LET earlier == {i \in 1..Len(health.alerts) : health.alerts[i].poll < n}
    IN  /\ earlier # {}
        /\ health.alerts[CHOOSE i \in earlier : \A j \in earlier : j <= i].kind = "DOWN"

\* The number of consecutive failed polls ending at poll n.
RECURSIVE ConsecutiveFailed(_)
ConsecutiveFailed(n) ==
    IF n = 0 \/ health.polls[n].ok THEN 0 ELSE 1 + ConsecutiveFailed(n - 1)

Outcomes == [n \in 1..Len(health.polls) |-> health.polls[n].ok]

AlertLog == [i \in 1..Len(health.alerts) |-> <<health.alerts[i].kind, health.alerts[i].poll>>]

\* C22: without a threshold, a DOWN alert is dispatched at a poll iff the poll
\* fails, the check is not already down and the consecutive failed polls
\* ending at it number at least missed_threshold; the count is 0 after a
\* success; [fail, fail, success] with missed_threshold 2 gives DOWN at poll 2
\* and UP at poll 3, [fail, success, fail, fail] gives one DOWN, at poll 4.
C22_ConsecutiveMode ==
    health.check.threshold = None =>
        /\ \A n \in 1..Len(health.polls) :
              /\ Cardinality(AlertsAt("DOWN", n)) <= 1
              /\ AlertsAt("DOWN", n) # {} <=>
                    /\ ~health.polls[n].ok
                    /\ ~DownBefore(n)
                    /\ ConsecutiveFailed(n) >= health.check.missed_threshold
        /\ health.consecutive_failures = ConsecutiveFailed(Len(health.polls))
        /\ (health.check.missed_threshold = 2 /\ Outcomes = <<FALSE, FALSE, TRUE>>)
              => AlertLog = << <<"DOWN", 2>>, <<"UP", 3>> >>
        /\ (health.check.missed_threshold = 2 /\ Outcomes = <<FALSE, TRUE, FALSE, FALSE>>)
              => AlertLog = << <<"DOWN", 4>> >>

\* [fail, success, fail, fail] with missed_threshold 2: one DOWN, at poll 4.
C22_Witness ==
    /\ health.check.threshold = None
    /\ health.check.missed_threshold = 2
    /\ Outcomes = <<FALSE, TRUE, FALSE, FALSE>>
    /\ AlertLog = << <<"DOWN", 4>> >>

\* C23: an UP alert is dispatched at a poll iff the poll succeeds while the
\* check is down, and then exactly one, with cooldown 0, and it passes the
\* cooldown gate whatever the map holds; after a successful poll the check is
\* not down, the consecutive count is 0 and the failure history is empty.
C23_RecoveryAlert ==
    /\ \A n \in 1..Len(health.polls) :
          /\ Cardinality(AlertsAt("UP", n)) <= 1
          /\ AlertsAt("UP", n) # {} <=> (health.polls[n].ok /\ DownBefore(n))
    /\ \A i \in 1..Len(health.alerts) :
          health.alerts[i].kind = "UP" =>
              health.alerts[i].cooldown_secs = 0 /\ health.alerts[i].passed
    /\ (health.polls # <<>> /\ health.polls[Len(health.polls)].ok) =>
          /\ ~health.is_down
          /\ health.consecutive_failures = 0
          /\ health.failure_history = <<>>

\* A recovery at the very instant the DOWN alert stamped the key.
C23_Witness ==
    /\ Len(health.alerts) = 2
    /\ health.alerts[1].kind = "DOWN"
    /\ health.alerts[2].kind = "UP"
    /\ health.alerts[2].passed
    /\ health.polls[health.alerts[1].poll].at = health.polls[health.alerts[2].poll].at
    /\ ~health.is_down

\* The failure history the claim describes after poll n, and whether count was
\* reached at poll n.
RECURSIVE WindowAfter(_)
WindowAfter(n) ==
    IF n = 0 THEN [history |-> <<>>, reached |-> FALSE]
    ELSE IF health.polls[n].ok THEN [history |-> <<>>, reached |-> FALSE]
    ELSE LET th == health.check.threshold[1]
             at == health.polls[n].at
             InWindow(x) == x >= at - th.window * TicksPerSec
             kept == SelectSeq(Append(WindowAfter(n - 1).history, at), InWindow)
         IN  IF Len(kept) >= th.count
             THEN [history |-> <<>>, reached |-> TRUE]
             ELSE [history |-> kept, reached |-> FALSE]

\* C24: with a threshold, a DOWN alert is dispatched at a poll iff the history
\* (failure times appended, entries older than now - window evicted) then
\* holds at least count entries and the check is not already down, whatever
\* missed_threshold is; the history is emptied when count is reached and on
\* every success.
C24_SlidingWindowMode ==
    health.check.threshold # None =>
        /\ \A n \in 1..Len(health.polls) :
              /\ Cardinality(AlertsAt("DOWN", n)) <= 1
              /\ AlertsAt("DOWN", n) # {} <=> (WindowAfter(n).reached /\ ~DownBefore(n))
        /\ health.failure_history = WindowAfter(Len(health.polls)).history

\* Three failures with missed_threshold 1: the first is evicted when the
\* second comes more than the window later, so the count of 2 is reached only
\* at the third, where the one DOWN alert goes out and the history is emptied.
C24_Witness ==
    /\ health.check.threshold # None
    /\ health.check.missed_threshold = 1
    /\ Outcomes = <<FALSE, FALSE, FALSE>>
    /\ health.polls[2].at - health.polls[1].at > health.check.threshold[1].window * TicksPerSec
    /\ AlertLog = << <<"DOWN", 3>> >>
    /\ health.failure_history = <<>>

\* ------------------------------------------------------ startup claims

\* handle_watch is past the building of the engine.
EngineBuilt == startup.pc \in {"running", "failed", "panicked"}

\* Some regex rule (a pattern, no text) has a pattern that does not compile.
BadPattern ==
    \E i \in 1..Len(startup.config.rules) :
        /\ startup.config.rules[i].text = None
        /\ startup.config.rules[i].pattern # None
        /\ ~balanced(startup.config.rules[i].pattern[1], 0)

\* Some rule names an alert that is not in the registry.
UnknownAlert ==
    \E i \in 1..Len(startup.config.rules) :
        \E k \in 1..Len(startup.config.rules[i].alert) :
            handlers[startup.config.rules[i].alert[k]] = NoHandler

\* C26: when a rule's regex does not compile or a rule names an unregistered
\* alert, building the engine fails with an error and no task is started; so
\* no dispatch of a running monitor ends on a name missing from the registry.
C26_StartupRejectsBadRules ==
    /\ (EngineBuilt /\ (BadPattern \/ UnknownAlert)) =>
          (startup.pc = "failed" /\ startup.tasks = 0)
    /\ call[FanTask].result # "err"

\* The number of text and pattern fields a rule has.
Matchers_present(rule) ==
    (IF rule.text # None THEN 1 ELSE 0) + (IF rule.pattern # None THEN 1 ELSE 0)

\* C27: Rule::validate is Ok iff exactly one of text and pattern is present;
\* every rule of a running engine has exactly one of them, and a rule list
\* with a rule that has both or neither makes the building of the engine fail
\* with an error (no panic, no start).
C27_TextXorRegex ==
    /\ \A rule \in StartupRule1Values \cup {StartupRule2} :
          Rule_validate(rule) = "Ok" <=> Matchers_present(rule) = 1
    /\ startup.pc = "running" =>
          \A i \in 1..Len(startup.config.rules) :
              Matchers_present(startup.config.rules[i]) = 1
    /\ (EngineBuilt /\ \E i \in 1..Len(startup.config.rules) :
                           Matchers_present(startup.config.rules[i]) # 1) =>
          startup.pc = "failed"

\* ------------------------------------------------- threshold string claims

\* The parts spell a string of the form  ws* N ws+ "in" ws+ V unit ws*.
WellFormed(p) ==
    /\ \A i \in 1..Len(p.lead) : p.lead[i] \in WhiteSpace
    /\ p.count # <<>> /\ \A i \in 1..Len(p.count) : p.count[i] \in Digits
    /\ p.sep1 # <<>> /\ \A i \in 1..Len(p.sep1) : p.sep1[i] \in WhiteSpace
    /\ p.word = <<"i", "n">>
    /\ p.sep2 # <<>> /\ \A i \in 1..Len(p.sep2) : p.sep2[i] \in WhiteSpace
    /\ p.value # <<>> /\ \A i \in 1..Len(p.value) : p.value[i] \in Digits
    /\ p.unit \in { <<"m", "s">>, <<"s">>, <<"m">>, <<"h">> }
    /\ \A i \in 1..Len(p.trail) : p.trail[i] \in WhiteSpace

\* The window the claim gives for value V and a unit: V milliseconds, V
\* seconds, 60 * V seconds, 3600 * V seconds.
ClaimedWindow(p) ==
    [ scale |-> IF p.unit = <<"m", "s">> THEN "millis" ELSE "secs",
      amount |-> normalize(times(normalize(p.value),
                                 CASE p.unit = <<"m">> -> 60
                                   [] p.unit = <<"h">> -> 3600
                                   [] OTHER -> 1, 0)) ]

\* C28: Threshold::parse returns Ok for exactly the strings of the form, with
\* count N and the window of V and the unit, and an error for every other
\* string.
C28_ParseGrammar ==
    parsed.result # Pending =>
        IF WellFormed(parsed.parts)
        THEN /\ parsed.result.kind = "Ok"
             /\ parsed.result.count = normalize(parsed.parts.count)
             /\ parsed.result.window = ClaimedWindow(parsed.parts)
        ELSE parsed.result.kind = "Err"

\* C29: no threshold Threshold::parse returns has count 0.
C29_CountPositive ==
    parsed.result.kind = "Ok" => parsed.result.count # <<"0">>

\* ------------------------------------------------------ resource claims

\* One of check_cpu, check_memory, or a round of check_disk's loop runs.
CheckStep ==
    /\ resource.pc \in {"cpu", "memory", "disk"}
    /\ resource' # resource
    /\ resource'.pc # "wait"

\* The rule key and the configured threshold of the check at a position.
KeyAt(at) ==
    CASE at = "cpu" -> "cpu_threshold"
      [] at = "memory" -> "memory_threshold"
      [] at = "disk" -> "disk_threshold"

ThresholdAt(at) ==
    CASE at = "cpu" -> resource.config.cpu_percent
      [] at = "memory" -> resource.config.memory_percent
      [] at = "disk" -> resource.config.disk_percent

\* The value the check sampled is strictly above the configured threshold
\* (for a filesystem: it has space, and its used share is above).
Above(at, sample, threshold) ==
    /\ threshold # None
    /\ sample # None
    /\ IF at = "disk"
       THEN /\ sample[1].total_space # 0
            /\ (sample[1].total_space - sample[1].available_space) * 100
                  > threshold[1] * sample[1].total_space
       ELSE sample[1] > threshold[1]

\* What holds of every check: it dispatches iff the value is strictly above
\* the threshold, under its own key with cooldown 6 x interval; the dispatch
\* passes the gate iff no dispatch under the same key passed less than
\* 6 x interval ago, and then stamps that key and no other.
ResourceAlertRules ==
    CheckStep =>
        LET at == resource.pc
            key == KeyAt(at)
            recent == /\ cooldowns[key] # NoInstant
                      /\ now - cooldowns[key] < 6 * resource.config.interval * TicksPerSec
            called == resource'.last # None
        IN  /\ called <=> Above(at, resource'.sample, ThresholdAt(at))
            /\ called =>
                  /\ resource'.last[1].rule_name = key
                  /\ resource'.last[1].cooldown_secs = 6 * resource.config.interval
                  /\ resource'.last[1].passed <=> ~recent
            /\ cooldowns' =
                  IF called /\ ~recent THEN [cooldowns EXCEPT ![key] = now] ELSE cooldowns

\* C25 as stated: the rules above, and never more than one disk alert sent in
\* one sampling tick.
C25_Original ==
    [][ ResourceAlertRules /\ resource'.disk_sent <= 1 ]_vars

\* C25, amended: the rules above; a sampling tick sends a second disk alert
\* only when 6 x interval or more passed since its first one went through the
\* gate (the sends of a dispatch are awaited inside the loop).
C25_ResourceAlerts ==
    [][ /\ ResourceAlertRules
        /\ resource'.disk_sent > resource.disk_sent /\ resource.disk_sent >= 1 =>
              now - resource.disk_first >= 6 * resource.config.interval * TicksPerSec
      ]_vars

\* One tick in which the cpu, memory and first disk alert all passed, each
\* under its key, and the second filesystem's alert was suppressed.
C25_Witness ==
    /\ resource.pc = "disk"
    /\ resource.idx = 2
    /\ cooldowns["cpu_threshold"] # NoInstant
    /\ cooldowns["memory_threshold"] = cooldowns["cpu_threshold"]
    /\ cooldowns["disk_threshold"] = cooldowns["cpu_threshold"]
    /\ resource.disk_sent = 1
    /\ resource.last = Some([rule_name |-> "disk_threshold",
                             cooldown_secs |-> 6 * resource.config.interval,
                             passed |-> FALSE])

\* ------------------------------------------- dispatcher claims, continued

\* The dispatch passed the gate and delivered nothing: a target was not found
\* before any send succeeded, or every send it made failed.
DeliveredNothing(c) ==
    /\ c.passed
    /\ c.send_errs = Len(c.sends)
    /\ c.result = "err" \/ c.sends # <<>>

\* C37: the timestamp is in the map from the moment a dispatch has passed the
\* gate, before any lookup or send; a dispatch for R that reaches the gate less
\* than its cooldown after a dispatch for R that passed and then delivered
\* nothing is suppressed.
C37_FailedDispatchConsumesCooldown ==
    [][ /\ \A t \in Tasks :
              call[t].passed =>
                  /\ cooldowns[call[t].rule_name] # NoInstant
                  /\ cooldowns[call[t].rule_name] >= call[t].stamp
        /\ \A t, u \in Tasks :
              ( /\ t # u
                /\ Decides(t)
                /\ Returned(u) /\ DeliveredNothing(call[u])
                /\ call[u].rule_name = call[t].rule_name
                /\ now - call[u].stamp < call[t].cooldown_secs * TicksPerSec )
              => Suppresses(t) ]_vars

\* A dispatch that returned handler-not-found after one failed send, and a
\* second one for the same rule suppressed within the cooldown.
C37_Witness ==
    \E t, u \in Tasks :
        /\ t # u
        /\ Returned(u) /\ DeliveredNothing(call[u])
        /\ call[u].result = "err" /\ Len(call[u].sends) = 1
        /\ Returned(t) /\ ~call[t].passed
        /\ call[t].rule_name = call[u].rule_name
        /\ call[t].cooldown_secs = 1
        /\ cooldowns[call[t].rule_name] = call[u].stamp

\* C38: a dispatch with cooldown 0 writes last[rule] = now like any other, and
\* a dispatch under the same name with a positive cooldown C that reaches the
\* gate less than C after it is suppressed.
C38_ZeroCooldownStamps ==
    [][ /\ \A t \in Tasks :
              (Crosses(t) /\ call[t].cooldown_secs = 0)
                  => cooldowns'[call[t].rule_name] = now
        /\ \A t, u \in Tasks :
              ( /\ t # u
                /\ Decides(t) /\ call[t].cooldown_secs > 0
                /\ call[u].passed /\ call[u].cooldown_secs = 0
                /\ call[u].rule_name = call[t].rule_name
                /\ now - call[u].stamp < from_secs(call[t].cooldown_secs) )
              => Suppresses(t) ]_vars

\* The map held nothing for the name before the cooldown-0 dispatch; the only
\* timestamp the later cooldown-1 dispatch was suppressed by is that one.
C38_Witness ==
    \E t, u \in Tasks :
        /\ t # u /\ started = 2
        /\ Returned(u) /\ call[u].passed /\ call[u].cooldown_secs = 0
        /\ Returned(t) /\ ~call[t].passed /\ call[t].cooldown_secs = 1
        /\ call[t].rule_name = call[u].rule_name
        /\ cooldowns[call[t].rule_name] = call[u].stamp
        /\ now > call[u].stamp

\* --------------------------------------------- health claims, continued

\* The alerts of a check are DOWN, UP, DOWN, UP, ..., each passed the gate, and
\* the check is down exactly when the last one is a DOWN.
Alternates(h) ==
    /\ \A i \in 1..Len(h.alerts) :
          /\ h.alerts[i].kind = (IF i % 2 = 1 THEN "DOWN" ELSE "UP")
          /\ h.alerts[i].passed
          /\ i > 1 => h.alerts[i - 1].poll < h.alerts[i].poll
    /\ h.is_down <=> (Len(h.alerts) % 2 = 1)

\* C39: the alerts of each check alternate DOWN, UP, DOWN, UP, ... starting
\* with DOWN, is_down holds exactly between a DOWN and the next UP, and a poll
\* of one check leaves the locals of the other as they are.
C39_AlertsAlternate ==
    [][ /\ Alternates(health) /\ Alternates(peer)
        /\ Alternates(health') /\ Alternates(peer')
        /\ Len(peer'.polls) > Len(peer.polls) => health' = health
        /\ Len(health'.polls) > Len(health.polls) => peer' = peer ]_vars

\* The first check, with missed_threshold 1, went DOWN, stayed down over a
\* second failure, came UP and went DOWN again, while the second check, under
\* the same name, went down in between.
C39_Witness ==
    /\ health.check.threshold = None
    /\ Outcomes = <<FALSE, FALSE, TRUE, FALSE>>
    /\ AlertLog = << <<"DOWN", 1>>, <<"UP", 3>>, <<"DOWN", 4>> >>
    /\ health.is_down
    /\ peer.check.name = health.check.name
    /\ peer.is_down /\ Len(peer.alerts) = 1
    /\ peer.alerts[1].poll = 2

\* C34: the cooldown mutex is owned only inside check_cooldown, never by a task
\* that is looking up or awaiting a handler; a task that waits for the mutex
\* can take it whenever it is free, whatever the other task's send is doing.
C34_LockNotHeldAcrossSend ==
    [][ /\ \A t \in Tasks :
              /\ pc[t] \in {"fanout", "sending", "idle"} => lockHolder # t
              /\ lockHolder = t => pc[t] \in {"check", "insert"}
        /\ \A t, u \in Tasks :
              (pc[u] = "sending" /\ pc[t] = "lock") => ENABLED AcquireLock(t) ]_vars

\* While the send for r1 is still awaited, a later dispatch for r2 has passed
\* the gate.
C34_Witness ==
    \E t, u \in Tasks :
        /\ pc[u] = "sending" /\ call[u].rule_name = "r1"
        /\ pc[t] = "fanout" /\ call[t].rule_name = "r2" /\ call[t].passed
        /\ call[t].stamp > call[u].stamp

\* ------------------------------------------ threshold claims, continued

\* Equal thresholds: the same count and the same Duration.
same_threshold(a, b) ==
    /\ a.kind = "Ok" /\ b.kind = "Ok"
    /\ a.count = b.count
    /\ as_millis(a.window) = as_millis(b.window)

\* C40: for every threshold Threshold::parse returns, parsing its serialized
\* string gives a threshold with the same count and the same window.
C40_SerializeRoundTrips ==
    parsed.reparsed # Pending => same_threshold(parsed.reparsed, parsed.result)

\* ------------------------------------------------ alert handler claims

\* C33: send of every HTTP handler returns Ok exactly when the endpoint
\* answered with a 2xx status, and an error on every other answer.
C33_NonSuccessIsError ==
    request.pc = "returned" =>
        ( request.result = "Ok" <=>
              /\ unwrap(request.answer).responded
              /\ is_success(unwrap(request.answer).status) )

\* ---------------------------------------------- watcher claims, continued

\* C35: when a file watcher's attempt ends on the child-exit branch of its
\* select, no line the child wrote is still unread in the pipe, so every line
\* written while the watcher was attached has gone to process_line.
C35_NoLineLost ==
    [][ ( /\ watcher.kind = "file"
          /\ watcher.pc = "watching" /\ watcher'.pc = "returned"
          /\ child = "exited" /\ pipe' = pipe )
        => pipe["stdout_task"] = <<>> ]_vars

\* C32: a read error in a container watcher ends no task: a reader task stops
\* only at the end of its pipe, after the child is gone.
C32_ErrorsEndNoTask ==
    \A t \in Tasks :
        ( /\ watcher.kind = "container" /\ watcher.pc = "watching"
          /\ reader[t].pc = "stopped" )
        => child # "running"

\* --------------------------------------------------- supervisor claims

\* C31: the wait of handle_watch ends only by returning the error of a root
\* task that has terminated, or by an interrupt; while no task has terminated
\* and no interrupt arrives, it goes on waiting, whatever errors the tasks
\* meet inside their loops.
C31_SupervisorTermination ==
    [][ /\ (supervisor.pc = "waiting" /\ supervisor'.pc = "returned") =>
              /\ \E k \in RootTasks : supervisor.tasks[k] = "panicked"
              /\ supervisor'.result = "Err"
        /\ (supervisor.pc = "waiting" /\ supervisor'.pc # "waiting") =>
              supervisor'.pc \in {"returned", "interrupted"}
        /\ supervisor.pc # "waiting" => supervisor' = supervisor
        /\ (\A k \in RootTasks : supervisor.tasks[k] # "panicked") =>
              ~ENABLED SelectAllReturns ]_vars

\* The resource task has ended with an error and handle_watch has returned it,
\* after a file watcher's failed attempt had left the supervisor waiting.
C31_Witness ==
    /\ supervisor.pc = "returned"
    /\ supervisor.result = "Err"
    /\ supervisor.tasks["resource"] = "panicked"
    /\ supervisor.tasks["file"] = "retrying"

====
